---- MODULE Spec2Model ----
(***************************************************************************)
(* Model of colossalai/amp/naive_amp/_fp16_optimizer.py: the loss scaler   *)
(* DynamicGradScaler and the mixed-precision wrapper FP16Optimizer.        *)
(*                                                                         *)
(* Tensors are one-element tensors.  A float is a record                   *)
(*   [k |-> "fin", n |-> numerator, d |-> denominator]  (n/d in lowest     *)
(*   terms, d > 0), [k |-> "inf", n |-> +1 or -1, d |-> 1], or             *)
(*   [k |-> "nan", n |-> 0, d |-> 1].                                      *)
(* Float32 arithmetic is modelled where it is exact: an operation whose    *)
(* result is not a float32 value (IsFloat32: a significand of at most 24   *)
(* bits) is not taken by the model (ClipRepresentable, StepRepresentable); *)
(* narrowing to float16 rounds to an 11-bit significand and is modelled as *)
(* such.                                                                   *)
(***************************************************************************)
EXTENDS Integers, Sequences, FiniteSets, TLC

(***************************************************************************)
(* Bounds of the model.                                                    *)
(***************************************************************************)
\* Number of update() calls made on a scaler in SpecScaler.
MaxUpdates == 5
\* Number of backward() calls (and so of step() calls) made in SpecOpt.
MaxSteps == 2
MaxDistSteps == 1
MaxTrainSteps == 3
MaxLoadSteps == 2
MaxApiSteps == 1
\* Largest tesseract_dim, tesseract_dep and world_size in SpecGroups.
MaxDim == 2
MaxDep == 2
MaxWorldSize == 8

(***************************************************************************)
(* Floating point values.                                                  *)
(***************************************************************************)
Abs(x) == IF x < 0 THEN -x ELSE x

GCD(a, b) ==
    LET gcd[x \in Nat, y \in Nat] == IF y = 0 THEN x ELSE gcd[y, x % y]
    IN  gcd[a, b]

Pow2(e) ==
    LET pow[i \in Nat] == IF i = 0 THEN 1 ELSE 2 * pow[i - 1]
    IN  pow[e]

\* The float n/d, in lowest terms.
Rat(n, d) ==
    LET g == GCD(Abs(n), Abs(d))
        s == IF d < 0 THEN -1 ELSE 1
    IN  [k |-> "fin", n |-> (s * n) \div g, d |-> (s * d) \div g]

F(i) == [k |-> "fin", n |-> i, d |-> 1]
Inf == [k |-> "inf", n |-> 1, d |-> 1]
NInf == [k |-> "inf", n |-> -1, d |-> 1]
NaN == [k |-> "nan", n |-> 0, d |-> 1]
\* Python's None, where a float is optional (max_scale, a gradient slot).
None == [k |-> "none", n |-> 0, d |-> 1]

\* The bits of a float32 significand.
FloatSignificandBits == 24

\* The odd part of a natural number: n with its factors of two removed.
OddPart(n) ==
    LET odd[i \in Nat] == IF i = 0 THEN 0 ELSE IF i % 2 = 0 THEN odd[i \div 2] ELSE i
    IN  odd[n]

\* x is a value a float32 tensor holds: an infinity, a NaN, or n/d with d a
\* power of two and a significand of at most 24 bits (the exponents of the
\* model's values are far inside float32's range).
IsFloat32(x) ==
    IF x.k # "fin" THEN TRUE
    ELSE IF OddPart(x.d) # 1 THEN FALSE
    ELSE OddPart(Abs(x.n)) < Pow2(FloatSignificandBits)

Sign(a) == IF a.n > 0 THEN 1 ELSE IF a.n < 0 THEN -1 ELSE 0
SignedInf(s) == [k |-> "inf", n |-> s, d |-> 1]

\* a * b
FMul(a, b) ==
    IF a.k = "nan" \/ b.k = "nan" THEN NaN
    ELSE IF a.k = "inf" \/ b.k = "inf"
         THEN IF Sign(a) * Sign(b) = 0 THEN NaN ELSE SignedInf(Sign(a) * Sign(b))
         ELSE Rat(a.n * b.n, a.d * b.d)

\* a / b
FDiv(a, b) ==
    IF a.k = "nan" \/ b.k = "nan" THEN NaN
    ELSE IF a.k = "inf"
         THEN IF b.k = "inf" THEN NaN
              ELSE SignedInf(IF Sign(b) < 0 THEN -Sign(a) ELSE Sign(a))
    ELSE IF b.k = "inf" THEN F(0)
    ELSE IF b.n = 0
         THEN IF a.n = 0 THEN NaN ELSE SignedInf(Sign(a))
         ELSE Rat(a.n * b.d, a.d * b.n)

\* a - b
FSub(a, b) ==
    IF a.k = "nan" \/ b.k = "nan" THEN NaN
    ELSE IF a.k = "inf"
         THEN IF b.k = "inf" /\ Sign(a) = Sign(b) THEN NaN ELSE a
    ELSE IF b.k = "inf" THEN SignedInf(-Sign(b))
    ELSE Rat(a.n * b.d - b.n * a.d, a.d * b.d)

\* a < b (false when either is NaN); finite values are compared by their
\* integer parts and then by their fractions.
FLt(a, b) ==
    /\ a.k # "nan"
    /\ b.k # "nan"
    /\ IF a.k = "inf" THEN a.n < 0 /\ ~(b.k = "inf" /\ b.n < 0)
       ELSE IF b.k = "inf" THEN b.n > 0
       ELSE LET qa == a.n \div a.d
                qb == b.n \div b.d
            IN  IF qa # qb THEN qa < qb
                ELSE (a.n - qa * a.d) * b.d < (b.n - qb * b.d) * a.d

\* a <= b (false when either is NaN)
FLe(a, b) == a.k # "nan" /\ b.k # "nan" /\ ~FLt(b, a)

\* torch.max(a, b) of two one-element tensors: NaN propagates.
FMax(a, b) ==
    IF a.k = "nan" \/ b.k = "nan" THEN NaN
    ELSE IF FLt(a, b) THEN b ELSE a

IsFinite(a) == a.k = "fin"

\* a + b
FAdd(a, b) ==
    IF a.k = "nan" \/ b.k = "nan" THEN NaN
    ELSE IF a.k = "inf"
         THEN IF b.k = "inf" /\ Sign(a) # Sign(b) THEN NaN ELSE a
    ELSE IF b.k = "inf" THEN b
    ELSE Rat(a.n * b.d + b.n * a.d, a.d * b.d)

\* Largest e >= 0 with 2^e * d <= n, for n >= d > 0.
FloorLog2(n, d) ==
    LET log[x \in Nat] == IF 2 * x <= n THEN 1 + log[2 * x] ELSE 0
    IN  log[d]

\* Smallest m >= 0 with 2^m * n >= d, for 0 < n.
CeilLog2Inv(n, d) ==
    LET log[x \in Nat] == IF x >= d THEN 0 ELSE 1 + log[2 * x]
    IN  log[n]

\* num/den rounded to the nearest integer, ties to the even one (num, den > 0).
RoundHalfEven(num, den) ==
    LET fl  == num \div den
        rem == num - fl * den
    IN  IF 2 * rem < den THEN fl
        ELSE IF 2 * rem > den THEN fl + 1
        ELSE IF fl % 2 = 0 THEN fl ELSE fl + 1

\* float16 has an 11-bit significand, exponents -14 .. 15, subnormals in steps
\* of 2^-24, and the largest finite value 65504.
HalfSignificandBits == 11
HalfMinExponent == -14
HalfMax == 65504

\* The positive rational n/d rounded to float16 (round to nearest even).
HalfOfPositive(n, d) ==
    LET e0 == IF n >= d THEN FloorLog2(n, d) ELSE -CeilLog2Inv(n, d)
        e  == IF e0 < HalfMinExponent THEN HalfMinExponent ELSE e0
        \* the spacing of float16 values around n/d is 2^sh
        sh == e - (HalfSignificandBits - 1)
        m  == IF sh >= 0 THEN RoundHalfEven(n, d * Pow2(sh))
                         ELSE RoundHalfEven(n * Pow2(-sh), d)
    IN  IF sh >= 0
        THEN IF m * Pow2(sh) > HalfMax THEN Inf ELSE Rat(m * Pow2(sh), 1)
        ELSE Rat(m, Pow2(-sh))

\* Tensor.half() / copy_ into a Half tensor: narrowing Float32 -> float16.
ToHalf(a) ==
    LET half[x \in {a}] ==
            IF x.k # "fin" THEN x
            ELSE IF x.n = 0 THEN x
            ELSE IF x.n > 0 THEN HalfOfPositive(x.n, x.d)
            ELSE LET r == HalfOfPositive(-x.n, x.d)
                 IN  IF r.k = "inf" THEN NInf ELSE Rat(-r.n, r.d)
    IN  half[a]

\* Tensor.float(): widening float16 -> Float32 is exact.
ToFloat(a) == a

(***************************************************************************)
(* DynamicGradScaler.  A scaler is a record of the object's fields.        *)
(***************************************************************************)
\* ValidConfig without the assertion min_scale <= initial_scale.
ValidConfig_NoMinUpperBound(c) ==
    /\ FLt(F(0), c.initial_scale)
    /\ FLt(F(0), c.min_scale)
    /\ FLt(F(1), c.growth_factor)
    /\ FLt(c.backoff_factor, F(1))
    /\ FLt(F(0), c.backoff_factor)
    /\ c.growth_interval > 0
    /\ c.hysteresis > 0
    /\ (c.max_scale # None =>
            FLt(F(1), c.max_scale) /\ FLe(c.initial_scale, c.max_scale))

\* The assertions of DynamicGradScaler.__init__.
ValidConfig(c) ==
    /\ FLt(F(0), c.initial_scale)
    /\ FLt(F(0), c.min_scale)
    /\ FLe(c.min_scale, c.initial_scale)
    /\ FLt(F(1), c.growth_factor)
    /\ FLt(c.backoff_factor, F(1))
    /\ FLt(F(0), c.backoff_factor)
    /\ c.growth_interval > 0
    /\ c.hysteresis > 0
    /\ (c.max_scale # None =>
            FLt(F(1), c.max_scale) /\ FLe(c.initial_scale, c.max_scale))

\* DynamicGradScaler.__init__ for a configuration that passes the assertions.
\* bases lists the base classes of the object's class: the class statement
\* of DynamicGradScaler names none.
NewScaler(c) ==
    [bases              |-> << >>,
     scale              |-> c.initial_scale,
     min_scale          |-> c.min_scale,
     growth_factor      |-> c.growth_factor,
     backoff_factor     |-> c.backoff_factor,
     growth_interval    |-> c.growth_interval,
     hysteresis         |-> c.hysteresis,
     max_scale          |-> c.max_scale,
     growth_tracker     |-> 0,
     hysteresis_tracker |-> c.hysteresis]

\* DynamicGradScaler(...): a failed assertion raises AssertionError and no
\* object is made.
AssertionError == [error |-> "AssertionError"]
\* An integer division by zero raises ZeroDivisionError.
ZeroDivisionError == [error |-> "ZeroDivisionError"]
DynamicGradScaler(c) == IF ValidConfig(c) THEN NewScaler(c) ELSE AssertionError

\* A scaler of a class derived from DynamicGradScaler and from BaseGradScaler
\* (class GradScaler(DynamicGradScaler, BaseGradScaler)): it is a
\* BaseGradScaler, and its methods are those of DynamicGradScaler.
GradScaler(c) ==
    [NewScaler(c) EXCEPT !.bases = <<"DynamicGradScaler", "BaseGradScaler">>]

\* UpdateOverflow without the floor at min_scale.
UpdateOverflow_NoFloor(s) ==
    LET ht == s.hysteresis_tracker - 1
    IN  [s EXCEPT !.growth_tracker = 0,
                  !.hysteresis_tracker = ht,
                  !.scale = IF ht <= 0 THEN FMul(s.scale, s.backoff_factor) ELSE s.scale]

\* UpdateOverflow with the hysteresis test off by one (ht < 0 for ht <= 0).
UpdateOverflow_StrictHysteresis(s) ==
    LET ht == s.hysteresis_tracker - 1
    IN  [s EXCEPT !.growth_tracker = 0,
                  !.hysteresis_tracker = ht,
                  !.scale = IF ht < 0
                            THEN FMax(FMul(s.scale, s.backoff_factor), s.min_scale)
                            ELSE s.scale]

\* The found_inf branch of update().
UpdateOverflow(s) ==
    LET ht == s.hysteresis_tracker - 1
    IN  [s EXCEPT !.growth_tracker = 0,
                  !.hysteresis_tracker = ht,
                  !.scale = IF ht <= 0
                            THEN FMax(FMul(s.scale, s.backoff_factor), s.min_scale)
                            ELSE s.scale]

\* UpdateNoOverflow that refills the hysteresis tracker on every call.
UpdateNoOverflow_RefillAlways(s) ==
    LET gt == s.growth_tracker + 1
    IN  IF gt = s.growth_interval
        THEN [s EXCEPT !.growth_tracker = 0,
                       !.hysteresis_tracker = s.hysteresis,
                       !.scale = IF s.max_scale # None /\ FLe(s.max_scale, s.scale)
                                 THEN s.scale
                                 ELSE FMul(s.scale, s.growth_factor)]
        ELSE [s EXCEPT !.growth_tracker = gt, !.hysteresis_tracker = s.hysteresis]

\* UpdateNoOverflow that forgets to refill the hysteresis tracker on growth.
UpdateNoOverflow_KeepHysteresis(s) ==
    LET gt == s.growth_tracker + 1
    IN  IF gt = s.growth_interval
        THEN [s EXCEPT !.growth_tracker = 0,
                       !.scale = IF s.max_scale # None /\ FLe(s.max_scale, s.scale)
                                 THEN s.scale
                                 ELSE FMul(s.scale, s.growth_factor)]
        ELSE [s EXCEPT !.growth_tracker = gt]

\* UpdateNoOverflow that grows on every call, ignoring growth_interval.
UpdateNoOverflow_GrowEveryCall(s) ==
    [s EXCEPT !.growth_tracker = 0,
              !.hysteresis_tracker = s.hysteresis,
              !.scale = IF s.max_scale # None /\ FLe(s.max_scale, s.scale)
                        THEN s.scale
                        ELSE FMul(s.scale, s.growth_factor)]

\* The else branch of update().
UpdateNoOverflow(s) ==
    LET gt == s.growth_tracker + 1
    IN  IF gt = s.growth_interval
        THEN [s EXCEPT !.growth_tracker = 0,
                       !.hysteresis_tracker = s.hysteresis,
                       !.scale = IF s.max_scale # None /\ FLe(s.max_scale, s.scale)
                                 THEN s.scale
                                 ELSE FMul(s.scale, s.growth_factor)]
        ELSE [s EXCEPT !.growth_tracker = gt]

\* DynamicGradScaler.update(found_inf)
update(s, found_inf) == IF found_inf THEN UpdateOverflow(s) ELSE UpdateNoOverflow(s)

\* DynamicGradScaler.state_dict()
scaler_state_dict(s) ==
    [max_scale          |-> s.max_scale,
     scale              |-> s.scale,
     growth_tracker     |-> s.growth_tracker,
     hysteresis_tracker |-> s.hysteresis_tracker]

\* load_state_dict that leaves the hysteresis tracker as it was.
scaler_load_state_dict_NoHysteresis(s, sd) ==
    [s EXCEPT !.scale = sd.scale,
              !.growth_tracker = sd.growth_tracker,
              !.max_scale = sd.max_scale]

\* DynamicGradScaler.load_state_dict(state_dict)
scaler_load_state_dict(s, sd) ==
    [s EXCEPT !.scale = sd.scale,
              !.growth_tracker = sd.growth_tracker,
              !.hysteresis_tracker = sd.hysteresis_tracker,
              !.max_scale = sd.max_scale]

(***************************************************************************)
(* Tensors.  The model's memory maps a tensor id to the tensor             *)
(*   [dtype, requires_grad, data, grad]; grad is None or a float.          *)
(* Parameter lists hold tensor ids, so two lists that name the same id     *)
(* name the same tensor object.                                            *)
(***************************************************************************)
HalfTensor == "torch.cuda.HalfTensor"
FloatTensor == "torch.cuda.FloatTensor"
BFloat16Tensor == "torch.cuda.BFloat16Tensor"

Tensor(dtype, requires_grad, data) ==
    [dtype |-> dtype, requires_grad |-> requires_grad, data |-> data, grad |-> None]

\* A value stored into a tensor of the given type.
CastTo(dtype, v) == IF dtype = HalfTensor THEN ToHalf(v) ELSE v

\* Python's None for a process group; a group is the set of its ranks.
NoGroup == {}

Min(a, b) == IF a < b THEN a ELSE b
\* The elements of a list, as a set.
Range(seq) == {seq[i] : i \in 1..Len(seq)}
\* The elements of a list of lists, as a set.
Members(groups) == UNION {Range(groups[g]) : g \in 1..Len(groups)}
\* The next unused tensor id.
FreshId(tensors) == 1 + Cardinality(DOMAIN tensors)

(***************************************************************************)
(* The wrapped base optimizer (torch.optim.Optimizer): SGD with momentum 1, *)
(* so that it keeps per-parameter state.  It is the record                 *)
(*   [param_groups, lr, state, buffers]:                                   *)
(* param_groups[g] is the parameter list of group g and lr[g] its learning *)
(* rate; a momentum buffer is an object of its own, so state maps a        *)
(* parameter to the id of its buffer and buffers maps a buffer id to the   *)
(* buffer's value.  Two holders of the same buffer id hold the same        *)
(* buffer object.                                                          *)
(***************************************************************************)
\* torch.optim.SGD(param_groups, lr=lr, momentum=1) holding the momentum
\* values `state` of earlier steps, each in a buffer of its own.  The state
\* mapping is torch's defaultdict(dict), which makes an entry for a key it
\* is asked for and does not have.
SGD(param_groups, lr, state) ==
    LET ps    == DOMAIN state
        id(p) == Cardinality({q \in ps : q <= p})
    IN  [param_groups |-> param_groups,
         lr           |-> [g \in 1..Len(param_groups) |-> lr],
         defaultdict  |-> TRUE,
         state        |-> [p \in ps |-> id(p)],
         buffers      |-> [i \in 1..Cardinality(ps) |->
                             state[CHOOSE p \in ps : id(p) = i]]]

\* The value of every parameter's momentum buffer.
momentum_buffer(base) == [p \in DOMAIN base.state |-> base.buffers[base.state[p]]]

\* Optimizer.step(), group by group: parameters without a gradient are
\* skipped; self.state[p] is read for every other parameter of the group,
\* which raises KeyError when the state is a plain dict without the key;
\* then a parameter without a buffer gets a new one holding its gradient and
\* the buffer of any other is updated in place.  The groups before the one
\* that raises (raises holds it and those after it that would) have been
\* updated, upd being the parameters updated.  The result is [tensors,
\* state, buffers, error].
base_step(tensors, base) ==
    CHOOSE r \in UNION {
      { LET new     == upd \ DOMAIN base.state
            n       == Len(base.buffers)
            slot(p) == IF p \in DOMAIN base.state
                       THEN base.state[p]
                       ELSE n + Cardinality({q \in new : q <= p})
            buf(p)  == IF p \in DOMAIN base.state
                       THEN FAdd(base.buffers[base.state[p]], tensors[p].grad)
                       ELSE tensors[p].grad
            lr(p)   == base.lr[CHOOSE g \in 1..Len(base.param_groups) :
                                    p \in Range(base.param_groups[g])]
        IN  [tensors |-> [p \in DOMAIN tensors |->
                            IF p \in upd
                            THEN [tensors[p] EXCEPT
                                    !.data = CastTo(tensors[p].dtype,
                                                    FSub(@, FMul(lr(p), buf(p))))]
                            ELSE tensors[p]],
             state   |-> [p \in DOMAIN base.state \cup upd |-> slot(p)],
             buffers |-> [i \in 1..(n + Cardinality(new)) |->
                            IF \E p \in upd : slot(p) = i
                            THEN buf(CHOOSE p \in upd : slot(p) = i)
                            ELSE base.buffers[i]],
             error   |-> IF raises = {} THEN "none" ELSE "KeyError"] :
        upd \in { {p \in UNION {Range(base.param_groups[g]) :
                                  g \in {h \in 1..Len(base.param_groups) :
                                            \A f \in raises : h < f}} :
                        tensors[p].grad # None} } } :
      raises \in { IF base.defaultdict THEN {}
                   ELSE {g \in 1..Len(base.param_groups) :
                            \E p \in Range(base.param_groups[g]) :
                                tensors[p].grad # None /\ p \notin DOMAIN base.state} } } : TRUE

\* The parameters of the base optimizer in group order: state_dict() names a
\* parameter by its position in this list.
RECURSIVE Flatten(_)
Flatten(groups) ==
    IF groups = << >> THEN << >> ELSE Head(groups) \o Flatten(Tail(groups))

\* Optimizer.state_dict(): the state keyed by parameter position; the
\* dictionary holds the parameters' buffers themselves, not copies.
base_state_dict(base) ==
    LET order == Flatten(base.param_groups)
    IN  [state        |-> [i \in {j \in 1..Len(order) : order[j] \in DOMAIN base.state}
                             |-> base.state[order[i]]],
         param_groups |-> [g \in 1..Len(base.param_groups) |->
                             [params |-> Len(base.param_groups[g]), lr |-> base.lr[g]]]]

\* Optimizer.load_state_dict(): the dictionary is deep-copied, so every saved
\* buffer is copied into a new one; the copies are keyed by the parameters
\* now at the saved positions in a new defaultdict, and each group takes its
\* saved learning rate.
base_load_state_dict(base, sd) ==
    LET order   == Flatten(base.param_groups)
        keys    == DOMAIN sd.state
        n       == Len(base.buffers)
        slot(i) == n + Cardinality({j \in keys : j <= i})
    IN  [base EXCEPT
            !.state   = [p \in {order[i] : i \in keys} |->
                            slot(CHOOSE i \in keys : order[i] = p)],
            !.buffers = [x \in 1..(n + Cardinality(keys)) |->
                            IF x <= n THEN base.buffers[x]
                            ELSE base.buffers[sd.state[CHOOSE i \in keys : slot(i) = x]]],
            !.lr      = [g \in 1..Len(base.lr) |-> sd.param_groups[g].lr],
            !.defaultdict = TRUE]

(***************************************************************************)
(* FP16Optimizer.  An optimizer is the record of the object's fields, with *)
(* the memory (tensors) its parameter lists point into.                    *)
(***************************************************************************)
\* _get_process_group: the group the global context gives for a mode.  The
\* argument parallel_mode is not used: the DATA group is returned for
\* every mode.
get_process_group(parallel_mode, gpc) ==
    IF gpc.data_initialized /\ gpc.data_world_size # 0
    THEN gpc.data_group
    ELSE NoGroup

\* InitParam that keeps a parameter of any other type as it keeps a Float32 one.
InitParam_AcceptOther(o, g, i) ==
    LET p == o.optimizer.param_groups[g][i]
        t == o.tensors[p]
        m == FreshId(o.tensors)
    IN  IF ~t.requires_grad THEN o
        ELSE IF t.dtype = HalfTensor
        THEN [o EXCEPT
                !.tensors = [x \in DOMAIN o.tensors \cup {m} |->
                               IF x = m THEN Tensor(FloatTensor, FALSE, ToFloat(t.data))
                               ELSE o.tensors[x]],
                !.optimizer.param_groups[g][i] = m,
                !.optimizer.state =
                    IF p \in DOMAIN o.optimizer.state
                    THEN [x \in (DOMAIN o.optimizer.state \ {p}) \cup {m} |->
                            IF x = m THEN o.optimizer.state[p] ELSE o.optimizer.state[x]]
                    ELSE o.optimizer.state,
                !.fp16_param_groups[g] = Append(@, p),
                !.fp32_master_param_groups[g] = Append(@, m)]
        ELSE [o EXCEPT !.fp32_param_groups[g] = Append(@, p)]

\* InitParam that does not put the master into the base optimizer's slot.
InitParam_KeepHalfInSlot(o, g, i) ==
    LET p == o.optimizer.param_groups[g][i]
        t == o.tensors[p]
        m == FreshId(o.tensors)
    IN  IF ~t.requires_grad THEN o
        ELSE IF t.dtype = HalfTensor
        THEN [o EXCEPT
                !.tensors = [x \in DOMAIN o.tensors \cup {m} |->
                               IF x = m THEN Tensor(FloatTensor, FALSE, ToFloat(t.data))
                               ELSE o.tensors[x]],
                !.optimizer.state =
                    IF p \in DOMAIN o.optimizer.state
                    THEN [x \in (DOMAIN o.optimizer.state \ {p}) \cup {m} |->
                            IF x = m THEN o.optimizer.state[p] ELSE o.optimizer.state[x]]
                    ELSE o.optimizer.state,
                !.fp16_param_groups[g] = Append(@, p),
                !.fp32_master_param_groups[g] = Append(@, m)]
        ELSE IF t.dtype = FloatTensor
        THEN [o EXCEPT !.fp32_param_groups[g] = Append(@, p)]
        ELSE [o EXCEPT !.error = "TypeError"]

\* InitParam that pops the state entry of the Half parameter without keying
\* it by the master.
InitParam_DropState(o, g, i) ==
    LET p == o.optimizer.param_groups[g][i]
        t == o.tensors[p]
        m == FreshId(o.tensors)
    IN  IF ~t.requires_grad THEN o
        ELSE IF t.dtype = HalfTensor
        THEN [o EXCEPT
                !.tensors = [x \in DOMAIN o.tensors \cup {m} |->
                               IF x = m THEN Tensor(FloatTensor, FALSE, ToFloat(t.data))
                               ELSE o.tensors[x]],
                !.optimizer.param_groups[g][i] = m,
                !.optimizer.state =
                    IF p \in DOMAIN o.optimizer.state
                    THEN [x \in DOMAIN o.optimizer.state \ {p} |-> o.optimizer.state[x]]
                    ELSE o.optimizer.state,
                !.fp16_param_groups[g] = Append(@, p),
                !.fp32_master_param_groups[g] = Append(@, m)]
        ELSE IF t.dtype = FloatTensor
        THEN [o EXCEPT !.fp32_param_groups[g] = Append(@, p)]
        ELSE [o EXCEPT !.error = "TypeError"]

\* InitParam that puts each new master at the front of its group's list.
InitParam_PrependMaster(o, g, i) ==
    LET p == o.optimizer.param_groups[g][i]
        t == o.tensors[p]
        m == FreshId(o.tensors)
    IN  IF ~t.requires_grad THEN o
        ELSE IF t.dtype = HalfTensor
        THEN [o EXCEPT
                !.tensors = [x \in DOMAIN o.tensors \cup {m} |->
                               IF x = m THEN Tensor(FloatTensor, FALSE, ToFloat(t.data))
                               ELSE o.tensors[x]],
                !.optimizer.param_groups[g][i] = m,
                !.optimizer.state =
                    IF p \in DOMAIN o.optimizer.state
                    THEN [x \in (DOMAIN o.optimizer.state \ {p}) \cup {m} |->
                            IF x = m THEN o.optimizer.state[p] ELSE o.optimizer.state[x]]
                    ELSE o.optimizer.state,
                !.fp16_param_groups[g] = Append(@, p),
                !.fp32_master_param_groups[g] = <<m>> \o @]
        ELSE IF t.dtype = FloatTensor
        THEN [o EXCEPT !.fp32_param_groups[g] = Append(@, p)]
        ELSE [o EXCEPT !.error = "TypeError"]

\* One iteration of the loop over a group's parameters in __init__.
InitParam(o, g, i) ==
    LET p == o.optimizer.param_groups[g][i]
        t == o.tensors[p]
        m == FreshId(o.tensors)
    IN  IF ~t.requires_grad THEN o
        ELSE IF t.dtype = HalfTensor
        THEN [o EXCEPT
                !.tensors = [x \in DOMAIN o.tensors \cup {m} |->
                               IF x = m THEN Tensor(FloatTensor, FALSE, ToFloat(t.data))
                               ELSE o.tensors[x]],
                !.optimizer.param_groups[g][i] = m,
                !.optimizer.state =
                    IF p \in DOMAIN o.optimizer.state
                    THEN [x \in (DOMAIN o.optimizer.state \ {p}) \cup {m} |->
                            IF x = m THEN o.optimizer.state[p] ELSE o.optimizer.state[x]]
                    ELSE o.optimizer.state,
                !.fp16_param_groups[g] = Append(@, p),
                !.fp32_master_param_groups[g] = Append(@, m)]
        ELSE IF t.dtype = FloatTensor
        THEN [o EXCEPT !.fp32_param_groups[g] = Append(@, p)]
        ELSE [o EXCEPT !.error = "TypeError"]

\* The loops of __init__ over the groups and their parameters, from
\* parameter i of group g on; a TypeError ends them.
RECURSIVE InitLoop(_, _, _)
InitLoop(o, g, i) ==
    IF o.error # "none" \/ g > Len(o.optimizer.param_groups) THEN o
    ELSE IF i > Len(o.optimizer.param_groups[g]) THEN InitLoop(o, g + 1, 1)
    ELSE InitLoop(InitParam(o, g, i), g, i + 1)

\* isinstance(x, cls) for an object whose class is not cls itself.
isinstance(x, cls) == cls \in Range(x.bases)

\* FP16Optimizer.__init__(optimizer, grad_scaler, clip_grad_norm,
\* dp_process_group, mp_process_group); tensors is the memory the base
\* optimizer's parameters live in, gpc the global context.  The assertion on
\* the scaler's class comes first: when it fails nothing has been built.
FP16Optimizer(tensors, optimizer, grad_scaler, clip_grad_norm, dp_process_group, mp_process_group, gpc) ==
    LET empty == [g \in 1..Len(optimizer.param_groups) |-> << >>]
        o0 == [tensors                  |-> tensors,
               optimizer                |-> optimizer,
               grad_scaler              |-> grad_scaler,
               found_overflow           |-> 0,
               dummy_overflow_buf       |-> 0,
               clip_grad_max_norm       |-> clip_grad_norm,
               dp_process_group         |-> IF dp_process_group = NoGroup
                                            THEN get_process_group("DATA", gpc)
                                            ELSE dp_process_group,
               mp_process_group         |-> IF mp_process_group = NoGroup
                                            THEN get_process_group("MODEL", gpc)
                                            ELSE mp_process_group,
               fp16_param_groups        |-> empty,
               fp32_master_param_groups |-> empty,
               fp32_param_groups        |-> empty,
               error                    |-> "none"]
        o1 == InitLoop(o0, 1, 1)
    IN  IF ~isinstance(grad_scaler, "BaseGradScaler")
        THEN [o0 EXCEPT !.dp_process_group = NoGroup,
                        !.mp_process_group = NoGroup,
                        !.error = "AssertionError"]
        ELSE IF o1.error # "none" THEN o1
        ELSE [o1 EXCEPT !.optimizer =
                            base_load_state_dict(o1.optimizer, base_state_dict(o1.optimizer))]

\* The positions <<g, i>> that zip(fp16_param_groups, fp32_master_param_groups)
\* and the inner zip visit.
PairPositions(o) ==
    UNION { { <<g, i>> : i \in 1..Min(Len(o.fp16_param_groups[g]),
                                       Len(o.fp32_master_param_groups[g])) } :
            g \in 1..Min(Len(o.fp16_param_groups), Len(o.fp32_master_param_groups)) }
\* The pairs <<live Half parameter, master>> those zips yield.
Pairs(o) ==
    { <<o.fp16_param_groups[q[1]][q[2]], o.fp32_master_param_groups[q[1]][q[2]]>> :
        q \in PairPositions(o) }

\* has_inf_or_nan(p.grad); a parameter without a gradient has nothing to scan.
has_inf_or_nan(grad) == grad # None /\ ~IsFinite(grad)

\* zero_gard_by_list(params, set_to_none), over every base-optimizer group.
zero_grad(o, set_to_none) ==
    LET ps == Members(o.optimizer.param_groups)
    IN  [o EXCEPT !.tensors =
            [p \in DOMAIN o.tensors |->
                IF p \in ps /\ o.tensors[p].grad # None
                THEN [o.tensors[p] EXCEPT !.grad = IF set_to_none THEN None ELSE F(0)]
                ELSE o.tensors[p]]]

\* FP16Optimizer._assign_grad_to_fp32_master_param
assign_grad_to_fp32_master_param(o) ==
    [o EXCEPT !.tensors =
        [p \in DOMAIN o.tensors |->
            IF \E pr \in Pairs(o) : pr[2] = p
            THEN LET pr == CHOOSE x \in Pairs(o) : x[2] = p
                 IN  [o.tensors[p] EXCEPT !.grad = ToFloat(o.tensors[pr[1]].grad)]
            ELSE IF \E pr \in Pairs(o) : pr[1] = p
            THEN [o.tensors[p] EXCEPT !.grad = None]
            ELSE o.tensors[p]]]

\* _unscale_grads over the standalone Float32 groups only.
unscale_grads_StandaloneOnly(o) ==
    LET ps == Members(o.fp32_param_groups)
    IN  [o EXCEPT !.tensors =
            [p \in DOMAIN o.tensors |->
                IF p \in ps /\ o.tensors[p].grad # None
                THEN [o.tensors[p] EXCEPT !.grad = FDiv(@, o.grad_scaler.scale)]
                ELSE o.tensors[p]]]

\* FP16Optimizer._unscale_grads
unscale_grads(o) ==
    LET ps == Members(o.fp32_master_param_groups \o o.fp32_param_groups)
    IN  [o EXCEPT !.tensors =
            [p \in DOMAIN o.tensors |->
                IF p \in ps /\ o.tensors[p].grad # None
                THEN [o.tensors[p] EXCEPT !.grad = FDiv(@, o.grad_scaler.scale)]
                ELSE o.tensors[p]]]

\* check_overflow_local without self._found_overflow.fill_(0.0): the flag of an
\* earlier step stays set.
check_overflow_local_NoReset(o) ==
    [o EXCEPT !.found_overflow =
        IF \E p \in Members(o.optimizer.param_groups) :
                has_inf_or_nan(o.tensors[p].grad)
        THEN 1 ELSE o.found_overflow]

\* _check_overflow up to the first all-reduce: the flag is cleared and set
\* from this rank's own gradients.
check_overflow_local(o) ==
    [o EXCEPT !.found_overflow =
        IF \E p \in Members(o.optimizer.param_groups) :
                has_inf_or_nan(o.tensors[p].grad)
        THEN 1 ELSE 0]

\* dist.all_reduce(found_overflow, op=MAX): the value every member is left
\* with, given the values the members contributed.
all_reduce_max(values) == CHOOSE v \in values : \A w \in values : w <= v

\* _multi_tensor_copy_this_to_that(this, that, overflow_buf) for the lists of
\* pairs <<that, this>>: a non-zero overflow_buf is filled with 0 and the
\* fused kernel taken (a scale by 1.0), a zero one takes the loop of copy_;
\* either stores this's value cast to that's type.  The result is [tensors,
\* overflow_buf].
multi_tensor_copy_this_to_that(tensors, pairs, overflow_buf) ==
    [tensors |->
        [p \in DOMAIN tensors |->
            IF \E pr \in pairs : pr[1] = p
            THEN LET pr == CHOOSE x \in pairs : x[1] = p
                 IN  [tensors[p] EXCEPT
                        !.data = IF overflow_buf # 0
                                 THEN CastTo(tensors[p].dtype, FMul(tensors[pr[2]].data, F(1)))
                                 ELSE CastTo(tensors[p].dtype, tensors[pr[2]].data)]
            ELSE tensors[p]],
     overflow_buf |-> 0]

\* _update_fp16_param_from_fp32_param that stops after the first group.
update_fp16_param_from_fp32_param_FirstGroupOnly(o) ==
    CHOOSE r \in
        { [o EXCEPT !.tensors = c.tensors, !.dummy_overflow_buf = c.overflow_buf] :
          c \in {multi_tensor_copy_this_to_that(
                    o.tensors,
                    {pr \in Pairs(o) : pr[1] \in Range(o.fp16_param_groups[1])},
                    o.dummy_overflow_buf)} } : TRUE

\* FP16Optimizer._update_fp16_param_from_fp32_param
update_fp16_param_from_fp32_param(o) ==
    CHOOSE r \in
        { [o EXCEPT !.tensors = c.tensors, !.dummy_overflow_buf = c.overflow_buf] :
          c \in {multi_tensor_copy_this_to_that(o.tensors, Pairs(o),
                                               o.dummy_overflow_buf)} } : TRUE

\* The integer square root of n, by bisection.
ISqrt(n) ==
    LET root[lo \in Nat, hi \in Nat] ==
            IF lo >= hi THEN lo
            ELSE IF (lo + hi + 1) \div 2 <= n \div ((lo + hi + 1) \div 2)
                 THEN root[(lo + hi + 1) \div 2, hi]
                 ELSE root[lo, (lo + hi + 1) \div 2 - 1]
    IN  root[0, Pow2(16)]

IsSquare(n) == n >= 0 /\ ISqrt(n) * ISqrt(n) = n

\* x is not finite or is the square of a rational.
ExactRoot(x) == IF x.k # "fin" THEN TRUE ELSE IsSquare(x.n) /\ IsSquare(x.d)

\* log2 of a power of two.
Log2(d) ==
    LET log[i \in Nat] == IF i <= 1 THEN 0 ELSE 1 + log[i \div 2]
    IN  log[d]

\* The float32 value nearest to the root of n / 4^h, for an integer n >= 1
\* that is no square: the digits of the root are taken one bit at a time (q
\* the root so far, r the remainder, k the bits after the point) until q has
\* one bit more than a float32 significand, and that bit rounds.
RoundedRoot(n, h) ==
    LET digits[q \in Nat, r \in Nat, k \in Nat] ==
            IF q >= Pow2(FloatSignificandBits) THEN [q |-> q, k |-> k]
            ELSE IF 4 * r >= 4 * q + 1
                 THEN digits[2 * q + 1, 4 * r - (4 * q + 1), k + 1]
                 ELSE digits[2 * q, 4 * r, k + 1]
    IN  CHOOSE x \in { Rat((res.q + 1) \div 2, Pow2(res.k - 1 + h)) :
                         res \in {digits[ISqrt(n), n - ISqrt(n) * ISqrt(n), 0]} } : TRUE

\* x ** 0.5 of a sum of squares x, in float32: the root itself when x is the
\* square of a rational, the float32 value nearest to it when x is another
\* float32 value.  The root of a finite value that is no float32 value is kept
\* as the record [k |-> "sqrt", n, d].
Sqrt(x) ==
    IF x.k # "fin" THEN x
    ELSE IF IsSquare(x.n) /\ IsSquare(x.d)
    THEN Rat(ISqrt(x.n), ISqrt(x.d))
    ELSE IF OddPart(x.d) # 1 THEN [k |-> "sqrt", n |-> x.n, d |-> x.d]
    ELSE IF Log2(x.d) % 2 = 0 THEN RoundedRoot(x.n, Log2(x.d) \div 2)
    ELSE RoundedRoot(2 * x.n, (Log2(x.d) + 1) \div 2)

\* The sum of the squares of the gradients of the parameters ps.
SumOfSquares(tensors, ps) ==
    LET sum[S \in SUBSET ps] ==
            IF S = {} THEN F(0)
            ELSE FAdd(sum[S \ {CHOOSE q \in S : TRUE}],
                      FMul(tensors[CHOOSE q \in S : TRUE].grad,
                           tensors[CHOOSE q \in S : TRUE].grad))
    IN  sum[ps]

\* clip_grad_norm_fp32 has to scale the gradients: their norm exceeds
\* max_norm.
Exceeds(total, max_norm) == total.k = "inf" \/ FLt(FMul(max_norm, max_norm), total)

\* clip_grad_norm_fp32(params, max_norm): the L2 norm of the gradients of the
\* parameters that have one; when it exceeds max_norm every such gradient is
\* scaled by max_norm / norm.  The result is [tensors, norm].  The scaled
\* gradients are values of the model only when the norm is the exact root
\* (ClipRepresentable).
clip_grad_norm_fp32(tensors, params, max_norm) ==
    CHOOSE r \in
        { [tensors |-> IF Exceeds(total, max_norm)
                       THEN CHOOSE ts \in
                                { [p \in DOMAIN tensors |->
                                     IF p \in params /\ tensors[p].grad # None
                                     THEN [tensors[p] EXCEPT !.grad = FMul(@, clip_coeff)]
                                     ELSE tensors[p]] :
                                  clip_coeff \in {FDiv(max_norm, Sqrt(total))} } : TRUE
                       ELSE tensors,
           norm    |-> Sqrt(total)] :
          total \in {SumOfSquares(tensors, {p \in params : tensors[p].grad # None})} } : TRUE

\* FP16Optimizer.clip_grad_norm(clip_grad), over every parameter of every
\* base-optimizer group.  The result is [opt, grad_norm].
clip_grad_norm(o, clip_grad) ==
    CHOOSE r \in
        { [opt |-> [o EXCEPT !.tensors = c.tensors], grad_norm |-> c.norm] :
          c \in {clip_grad_norm_fp32(o.tensors, Members(o.optimizer.param_groups),
                                     clip_grad)} } : TRUE

\* The integers of the model are those of 32 bits: a * b and a + b are among
\* them.
MaxInt == 2 * (Pow2(30) - 1) + 1
Mulable(a, b) == IF b = 0 THEN TRUE ELSE Abs(a) <= MaxInt \div Abs(b)
Addable(a, b) ==
    IF a.k # "fin" \/ b.k # "fin" THEN TRUE
    ELSE /\ Mulable(a.n, b.d) /\ Mulable(b.n, a.d) /\ Mulable(a.d, b.d)
         /\ Abs(a.n * b.d) <= MaxInt - Abs(b.n * a.d)
Squarable(a) == IF a.k # "fin" THEN TRUE ELSE Mulable(a.n, a.n) /\ Mulable(a.d, a.d)

\* SumOfSquares(tensors, ps) stays within the integers of the model.
InRange(tensors, ps) ==
    LET fits[S \in SUBSET ps] ==
            IF S = {} THEN TRUE
            ELSE IF ~fits[S \ {CHOOSE q \in S : TRUE}] THEN FALSE
            ELSE \E g \in {tensors[CHOOSE q \in S : TRUE].grad} :
                 \E acc \in {SumOfSquares(tensors, S \ {CHOOSE q \in S : TRUE})} :
                    IF Squarable(g) THEN Addable(acc, FMul(g, g)) ELSE FALSE
    IN  fits[ps]

\* clip_grad_norm(clip_grad) is exact in float32: the squares of the
\* gradients and their sum are float32 values within the integers of the
\* model, and either the gradients are not scaled or their norm, the
\* coefficient clip_grad / norm and every scaled gradient are float32 values
\* too.
ClipRepresentable(o, clip_grad) ==
    \E ps \in {{p \in Members(o.optimizer.param_groups) : o.tensors[p].grad # None}} :
        IF ~InRange(o.tensors, ps) THEN FALSE
        ELSE \E total \in {SumOfSquares(o.tensors, ps)} :
             IF ~IsFloat32(total) THEN FALSE
             ELSE IF \E p \in ps : ~IsFloat32(FMul(o.tensors[p].grad, o.tensors[p].grad))
             THEN FALSE
             ELSE IF ~Exceeds(total, clip_grad) THEN TRUE
             ELSE IF ~ExactRoot(total) THEN FALSE
             ELSE \E coeff \in {FDiv(clip_grad, Sqrt(total))} :
                  IF ~IsFloat32(coeff) THEN FALSE
                  ELSE \A p \in ps :
                    IF o.tensors[p].grad.k # "fin" THEN TRUE
                    ELSE IF Mulable(o.tensors[p].grad.n, coeff.n)
                            /\ Mulable(o.tensors[p].grad.d, coeff.d)
                         THEN IsFloat32(FMul(o.tensors[p].grad, coeff))
                         ELSE FALSE

\* The setter of FP16Optimizer.state: the base optimizer's state becomes
\* the given mapping, a plain dict of the caller.
set_state(o, value) ==
    [o EXCEPT !.optimizer.state = value, !.optimizer.defaultdict = FALSE]

\* The setter of FP16Optimizer.param_groups: the base optimizer's groups
\* become the given ones, value[g] being [params, lr].
set_param_groups(o, value) ==
    [o EXCEPT !.optimizer.param_groups = [g \in 1..Len(value) |-> value[g].params],
              !.optimizer.lr           = [g \in 1..Len(value) |-> value[g].lr]]

\* The getter of FP16Optimizer.param_groups.
get_param_groups(o) ==
    [g \in 1..Len(o.optimizer.param_groups) |->
        [params |-> o.optimizer.param_groups[g], lr |-> o.optimizer.lr[g]]]

\* step_finish that zeroes the gradients' values on overflow instead of
\* releasing them.
step_finish_ZeroValues(o, overflow) ==
    CHOOSE r \in UNION {
      IF overflow
      THEN { [opt |-> zero_grad(o1, FALSE), success |-> FALSE, grad_norm |-> None,
              error |-> "none"] }
      ELSE UNION {
        { IF b.error # "none"
          THEN [opt |-> [c.opt EXCEPT !.tensors = b.tensors,
                                      !.optimizer.state = b.state,
                                      !.optimizer.buffers = b.buffers],
                success |-> FALSE, grad_norm |-> None, error |-> b.error]
          ELSE [opt |-> update_fp16_param_from_fp32_param(
                            [c.opt EXCEPT !.tensors = b.tensors,
                                          !.optimizer.state = b.state,
                                          !.optimizer.buffers = b.buffers]),
                success |-> TRUE, grad_norm |-> c.grad_norm, error |-> "none"] :
          b \in {base_step(c.opt.tensors, c.opt.optimizer)} } :
        c \in { IF FLt(F(0), o1.clip_grad_max_norm)
                THEN clip_grad_norm(o1, o1.clip_grad_max_norm)
                ELSE [opt |-> o1, grad_norm |-> None] } } :
      o1 \in { [o EXCEPT !.grad_scaler = update(o.grad_scaler, overflow)] } } : TRUE

\* step() after _check_overflow returned overflow: the scaler is updated;
\* on overflow the gradients are released and (False, None) returned, else
\* the gradients are clipped when a maximal norm is configured, the base
\* optimizer steps and the masters are copied to the live parameters; when
\* the base optimizer's step raises, step() ends there with that exception,
\* nothing copied and nothing returned.  The result is [opt, success,
\* grad_norm, error].
step_finish(o, overflow) ==
    CHOOSE r \in UNION {
      IF overflow
      THEN { [opt |-> zero_grad(o1, TRUE), success |-> FALSE, grad_norm |-> None,
              error |-> "none"] }
      ELSE UNION {
        { IF b.error # "none"
          THEN [opt |-> [c.opt EXCEPT !.tensors = b.tensors,
                                      !.optimizer.state = b.state,
                                      !.optimizer.buffers = b.buffers],
                success |-> FALSE, grad_norm |-> None, error |-> b.error]
          ELSE [opt |-> update_fp16_param_from_fp32_param(
                            [c.opt EXCEPT !.tensors = b.tensors,
                                          !.optimizer.state = b.state,
                                          !.optimizer.buffers = b.buffers]),
                success |-> TRUE, grad_norm |-> c.grad_norm, error |-> "none"] :
          b \in {base_step(c.opt.tensors, c.opt.optimizer)} } :
        c \in { IF FLt(F(0), o1.clip_grad_max_norm)
                THEN clip_grad_norm(o1, o1.clip_grad_max_norm)
                ELSE [opt |-> o1, grad_norm |-> None] } } :
      o1 \in { [o EXCEPT !.grad_scaler = update(o.grad_scaler, overflow)] } } : TRUE

\* step() up to the first all-reduce of _check_overflow.
step_begin(o) ==
    CHOOSE r \in
        { check_overflow_local(unscaled) :
          unscaled \in { unscale_grads(assigned) :
                         assigned \in {assign_grad_to_fp32_master_param(o)} } } : TRUE

\* _assign_grad_to_fp32_master_param reads fp16_param.grad.float(): step() can
\* only be called once every live Half parameter has a gradient.
StepCallable(o) == \A pr \in Pairs(o) : o.tensors[pr[1]].grad # None

\* Every Float32 tensor of o and every momentum buffer of its base optimizer
\* holds a float32 value.
Float32Values(o) ==
    /\ \A p \in DOMAIN o.tensors :
            o.tensors[p].dtype = FloatTensor =>
                IsFloat32(o.tensors[p].data) /\ IsFloat32(o.tensors[p].grad)
    /\ \A i \in DOMAIN o.optimizer.buffers : IsFloat32(o.optimizer.buffers[i])

\* step() is exact in float32: its clipping is, and so is the base
\* optimizer's step.
StepRepresentable(o) ==
    \E o1 \in {step_begin(x) : x \in {o}} :
        IF o1.found_overflow > 0 THEN TRUE
        ELSE IF FLt(F(0), o.clip_grad_max_norm)
                /\ ~ClipRepresentable(o1, o.clip_grad_max_norm) THEN FALSE
        ELSE \E r \in {step_finish(o1, FALSE)} : Float32Values(r.opt)

\* step() of an optimizer whose process groups are both None.
step(o) ==
    LET o1 == step_begin(o)
    IN  step_finish(o1, o1.found_overflow > 0)

\* The parameters autograd accumulates gradients into.
Trainable(o) ==
    {p \in Members(o.fp16_param_groups \o o.fp32_param_groups) : o.tensors[p].requires_grad}

\* backward(loss): the loss is multiplied by the scale, so every trainable
\* live parameter accumulates scale * g[p], in its own precision, where g[p]
\* is the gradient of the unscaled loss.
backward(o, g) ==
    [o EXCEPT !.tensors =
        [p \in DOMAIN o.tensors |->
            IF p \in Trainable(o)
            THEN LET t   == o.tensors[p]
                     new == CastTo(t.dtype, FMul(g[p], o.grad_scaler.scale))
                 IN  [t EXCEPT !.grad = IF t.grad = None THEN new
                                        ELSE CastTo(t.dtype, FAdd(t.grad, new))]
            ELSE o.tensors[p]]]

\* FP16Optimizer.state_dict(): the master list is the optimizer's own list
\* (the same tensor ids), not a copy of the values.
state_dict(o) ==
    [optimizer                |-> base_state_dict(o.optimizer),
     grad_scaler              |-> scaler_state_dict(o.grad_scaler),
     fp32_master_param_groups |-> o.fp32_master_param_groups]

\* The positions zip(current groups, checkpointed groups) visits.
CkptPositions(cur, ckpt) ==
    UNION { { <<g, i>> : i \in 1..Min(Len(cur[g]), Len(ckpt[g])) } :
            g \in 1..Min(Len(cur), Len(ckpt)) }

\* load_state_dict that also copies the loaded masters to the live Half
\* parameters.
load_state_dict_SyncLive(o, sd) ==
    LET o1 == [o EXCEPT !.optimizer = base_load_state_dict(o.optimizer, sd.optimizer)]
        o2 == IF "grad_scaler" \in DOMAIN sd
              THEN [o1 EXCEPT !.grad_scaler = scaler_load_state_dict(@, sd.grad_scaler)]
              ELSE o1
        cur == o.fp32_master_param_groups
    IN  IF "fp32_master_param_groups" \in DOMAIN sd
        THEN LET ck  == sd.fp32_master_param_groups
                 pos == CkptPositions(cur, ck)
             IN  update_fp16_param_from_fp32_param(
                    [o2 EXCEPT !.tensors =
                        [p \in DOMAIN o.tensors |->
                            IF \E q \in pos : cur[q[1]][q[2]] = p
                            THEN LET q == CHOOSE x \in pos : cur[x[1]][x[2]] = p
                                 IN  [o.tensors[p] EXCEPT
                                        !.data = CastTo(o.tensors[p].dtype,
                                                        o.tensors[ck[q[1]][q[2]]].data)]
                            ELSE o.tensors[p]]])
        ELSE o2

\* load_state_dict that installs the checkpointed master tensors as the
\* optimizer's master list instead of copying their values.
load_state_dict_Rebind(o, sd) ==
    LET o1 == [o EXCEPT !.optimizer = base_load_state_dict(o.optimizer, sd.optimizer)]
        o2 == IF "grad_scaler" \in DOMAIN sd
              THEN [o1 EXCEPT !.grad_scaler = scaler_load_state_dict(@, sd.grad_scaler)]
              ELSE o1
    IN  IF "fp32_master_param_groups" \in DOMAIN sd
        THEN [o2 EXCEPT !.fp32_master_param_groups = sd.fp32_master_param_groups]
        ELSE o2

\* load_state_dict that re-derives the masters from the live Half parameters
\* instead of copying the checkpointed masters.
load_state_dict_FromLive(o, sd) ==
    LET o1 == [o EXCEPT !.optimizer = base_load_state_dict(o.optimizer, sd.optimizer)]
        o2 == IF "grad_scaler" \in DOMAIN sd
              THEN [o1 EXCEPT !.grad_scaler = scaler_load_state_dict(@, sd.grad_scaler)]
              ELSE o1
    IN  [o2 EXCEPT !.tensors =
            [p \in DOMAIN o.tensors |->
                IF \E pr \in Pairs(o) : pr[2] = p
                THEN LET pr == CHOOSE x \in Pairs(o) : x[2] = p
                     IN  [o.tensors[p] EXCEPT !.data = ToFloat(o.tensors[pr[1]].data)]
                ELSE o.tensors[p]]]

\* FP16Optimizer.load_state_dict(state_dict)
load_state_dict(o, sd) ==
    LET o1 == [o EXCEPT !.optimizer = base_load_state_dict(o.optimizer, sd.optimizer)]
        o2 == IF "grad_scaler" \in DOMAIN sd
              THEN [o1 EXCEPT !.grad_scaler = scaler_load_state_dict(@, sd.grad_scaler)]
              ELSE o1
        cur == o.fp32_master_param_groups
    IN  IF "fp32_master_param_groups" \in DOMAIN sd
        THEN LET ck  == sd.fp32_master_param_groups
                 pos == CkptPositions(cur, ck)
             IN  [o2 EXCEPT !.tensors =
                    [p \in DOMAIN o.tensors |->
                        IF \E q \in pos : cur[q[1]][q[2]] = p
                        THEN LET q == CHOOSE x \in pos : cur[x[1]][x[2]] = p
                             IN  [o.tensors[p] EXCEPT
                                    !.data = CastTo(o.tensors[p].dtype,
                                                    o.tensors[ck[q[1]][q[2]]].data)]
                        ELSE o.tensors[p]]]
        ELSE o2

(***************************************************************************)
(* State.                                                                  *)
(***************************************************************************)
VARIABLES
    config,     \* SpecScaler: the arguments the scaler was constructed with
    scaler,     \* SpecScaler: the scaler under test
    hist,       \* SpecScaler: one entry per update() call made on scaler
    twin,       \* SpecScaler: a second scaler built with the same configuration
    restored,   \* SpecScaler: -1, or the number of update() calls made before
                \*             twin loaded scaler's state_dict
    layout,     \* SpecOpt: the memory and base optimizer FP16Optimizer was given
    opt,        \* SpecOpt: the FP16Optimizer
    ckpt,       \* SpecOpt: the state_dict()s the caller holds (none or one)
    last,       \* SpecOpt: the last call: its name and, for step(), its result
    nback,      \* SpecOpt: number of backward() calls made
    world,      \* SpecDist: how the ranks constructed their FP16Optimizer
    node,       \* SpecDist: each rank's FP16Optimizer
    pc,         \* SpecDist: where each rank is in its training loop
    wire,       \* SpecDist: the values contributed to all_reduce calls
    log,        \* SpecDist: per rank, one entry per step() call
    at,         \* SpecTrain: where the process is inside step(), or "Idle"
    trace,      \* SpecTrain: the statements of the current step() run so far
    entry,      \* SpecTrain: the optimizer as it was when step() was called
    ref,        \* SpecTrain: the base optimizer run unwrapped on Float32 copies
    outcomes,   \* SpecTrain: what each step() call returned
    given,      \* SpecLoad: the dictionary the last load_state_dict() was called with
    taken,      \* SpecLoad: how the checkpoint was taken, and the optimizer then
    pgi,        \* SpecGroups: the 2.5D process group initializer
    made,       \* SpecGroups: the rank lists passed to dist.new_group so far
    found,      \* SpecGroups: the locals of init_dist_group
    returned    \* SpecGroups: empty, or what init_dist_group returned

scalerVars == <<config, scaler, hist, twin, restored>>
optVars == <<layout, opt, ckpt, last, nback>>
distVars == <<world, node, pc, wire, log>>
trainVars == <<at, trace, entry, ref, outcomes>>
loadVars == <<given, taken>>
groupVars == <<pgi, made, found, returned>>
vars == <<scalerVars, optVars, distVars, trainVars, loadVars, groupVars>>

\* The variables of the other specifications, which a specification leaves alone.
Unused == "unused"
ScalerIdle ==
    config = Unused /\ scaler = Unused /\ hist = << >> /\ twin = Unused /\ restored = -1
OptIdle ==
    layout = Unused /\ opt = Unused /\ ckpt = {} /\ last = Unused /\ nback = 0
DistIdle ==
    world = Unused /\ node = Unused /\ pc = Unused /\ wire = {} /\ log = Unused
TrainIdle ==
    at = Unused /\ trace = << >> /\ entry = Unused /\ ref = Unused /\ outcomes = << >>
LoadIdle ==
    given = Unused /\ taken = Unused
GroupIdle ==
    pgi = Unused /\ made = << >> /\ found = Unused /\ returned = {}

(***************************************************************************)
(* SpecScaler: one DynamicGradScaler driven by update(found_inf) calls.    *)
(***************************************************************************)
ScalerConfigs ==
    { c \in [initial_scale   : {F(3), F(8)},
             min_scale       : {F(1), F(2)},
             growth_factor   : {F(2)},
             backoff_factor  : {Rat(1, 2), Rat(1, 4)},
             growth_interval : {1, 2, 3},
             hysteresis      : {1, 2, 3},
             max_scale       : {None, F(4), F(16)}] : ValidConfig(c) }

HistEntry(found_inf, s) ==
    [found_inf |-> found_inf, scale |-> s.scale,
     growth_tracker |-> s.growth_tracker,
     hysteresis_tracker |-> s.hysteresis_tracker]

InitScaler ==
    \E c \in ScalerConfigs :
        /\ config = c
        /\ scaler = NewScaler(c)
        /\ twin = NewScaler(c)
        /\ hist = << >>
        /\ restored = -1
        /\ OptIdle
        /\ DistIdle
        /\ TrainIdle
        /\ LoadIdle
        /\ GroupIdle

\* scaler.update(found_inf), before the twin is involved.
Update(found_inf) ==
    /\ restored = -1
    /\ Len(hist) < MaxUpdates
    /\ scaler' = update(scaler, found_inf)
    /\ hist' = Append(hist, HistEntry(found_inf, scaler'))
    /\ UNCHANGED <<config, twin, restored, optVars, distVars, trainVars, loadVars, groupVars>>

\* twin.load_state_dict(scaler.state_dict())
Restore ==
    /\ restored = -1
    /\ twin' = scaler_load_state_dict(twin, scaler_state_dict(scaler))
    /\ restored' = Len(hist)
    /\ UNCHANGED <<config, scaler, hist, optVars, distVars, trainVars, loadVars, groupVars>>

\* scaler.load_state_dict(scaler.state_dict())
Reload ==
    /\ restored >= 0
    /\ scaler' = scaler_load_state_dict(scaler, scaler_state_dict(scaler))
    /\ UNCHANGED <<config, hist, twin, restored, optVars, distVars, trainVars, loadVars, groupVars>>

\* The same update(found_inf) on the scaler and on its restored twin.
UpdateBoth(found_inf) ==
    /\ restored >= 0
    /\ Len(hist) < MaxUpdates
    /\ scaler' = update(scaler, found_inf)
    /\ twin' = update(twin, found_inf)
    /\ hist' = Append(hist, HistEntry(found_inf, scaler'))
    /\ UNCHANGED <<config, restored, optVars, distVars, trainVars, loadVars, groupVars>>

NextScaler ==
    \/ \E f \in BOOLEAN : Update(f)
    \/ Restore
    \/ Reload
    \/ \E f \in BOOLEAN : UpdateBoth(f)

SpecScaler == InitScaler /\ [][NextScaler]_vars

(***************************************************************************)
(* SpecCtor: one call of DynamicGradScaler(...) with arguments that may    *)
(* fail its assertions.                                                    *)
(***************************************************************************)
CtorConfigs ==
    [initial_scale   : {F(-1), F(0), F(3), F(8)},
     min_scale       : {F(-1), F(0), F(1), F(3), F(9)},
     growth_factor   : {Rat(1, 2), F(1), F(2)},
     backoff_factor  : {F(0), Rat(1, 2), F(1)},
     growth_interval : {0, 1},
     hysteresis      : {0, 2},
     max_scale       : {None, F(1), F(2), F(8), F(16)}]

\* Before the call there are neither arguments nor an object.
NotBuilt == [built |-> FALSE]

InitCtor ==
    /\ config = NotBuilt
    /\ scaler = NotBuilt
    /\ hist = << >>
    /\ twin = Unused
    /\ restored = -1
    /\ OptIdle
    /\ DistIdle
    /\ TrainIdle
    /\ LoadIdle
    /\ GroupIdle

\* scaler = DynamicGradScaler(**c)
Construct(c) ==
    /\ config = NotBuilt
    /\ config' = c
    /\ scaler' = DynamicGradScaler(c)
    /\ UNCHANGED <<hist, twin, restored, optVars, distVars, trainVars, loadVars, groupVars>>

NextCtor == \E c \in CtorConfigs : Construct(c)

SpecCtor == InitCtor /\ [][NextCtor]_vars

(***************************************************************************)
(* SpecOpt: one FP16Optimizer without process groups (a single process),   *)
(* driven by backward, step, zero_grad, state_dict and load_state_dict.    *)
(***************************************************************************)
\* What FP16Optimizer is constructed over: the model's parameters and a base
\* optimizer holding them, with or without momentum state from earlier steps.
OptLayouts ==
    { [tensors      |-> <<Tensor(HalfTensor, TRUE, F(2048)),
                          Tensor(FloatTensor, TRUE, F(5)),
                          Tensor(HalfTensor, TRUE, F(3)),
                          Tensor(HalfTensor, TRUE, F(-7))>>,
       param_groups |-> << <<1, 2, 3>>, <<4>> >>,
       state        |-> [p \in {1, 2} |-> F(1)]],
      [tensors      |-> <<Tensor(FloatTensor, TRUE, F(7)),
                          Tensor(HalfTensor, FALSE, F(4)),
                          Tensor(HalfTensor, TRUE, F(2048)),
                          Tensor(FloatTensor, FALSE, F(9))>>,
       param_groups |-> << <<1, 2>>, <<3, 4>> >>,
       state        |-> [p \in {} |-> F(0)]] }

OptScalerConfigs ==
    { c \in [initial_scale   : {F(4)},
             min_scale       : {F(1)},
             growth_factor   : {F(2)},
             backoff_factor  : {Rat(1, 2)},
             growth_interval : {1, 2},
             hysteresis      : {1, 2},
             max_scale       : {None}] :
        ValidConfig(c) /\ c.growth_interval = c.hysteresis }

\* The global context of a process that was not launched in a distributed run.
NoContext ==
    [data_initialized |-> FALSE, data_world_size |-> 0,
     data_group |-> NoGroup, model_group |-> NoGroup]

\* Gradients of the unscaled loss that one backward() may see: -1 for every
\* parameter; 1 for every parameter but the last, whose gradient is 16384
\* (which overflows float16 once multiplied by a scale of 4 or more); 1 for
\* every parameter but the first, whose gradient is NaN.
BackwardInputs(o) ==
    LET first == CHOOSE q \in Trainable(o) : \A p \in Trainable(o) : q <= p
        final == CHOOSE q \in Trainable(o) : \A p \in Trainable(o) : p <= q
    IN  { [p \in Trainable(o) |-> F(-1)],
          [p \in Trainable(o) |-> IF p = final THEN F(16384) ELSE F(1)],
          [p \in Trainable(o) |-> IF p = first THEN NaN ELSE F(1)] }

\* The caller's latest call and what it returned, or the exception it
\* raised.
Call(op) == [op |-> op, success |-> FALSE, grad_norm |-> None, error |-> "none"]

\* The values of clip_grad_norm an FP16Optimizer is constructed with: none,
\* or a maximal norm of 3/2.
ClipNorms == {F(0), Rat(3, 2)}

\* The momentum buffers a dictionary returned by state_dict() holds.
HeldBy(sd) == {sd.optimizer.state[i] : i \in DOMAIN sd.optimizer.state}

\* A buffer that neither the base optimizer nor a dictionary of the caller
\* holds any more is freed: the buffers still held, the optimizer's and those
\* of the dictionaries sds, keep their order and their ids are closed up.
\* The result is [opt, sds].
Collect(o, sds) ==
    LET held   == {o.optimizer.state[p] : p \in DOMAIN o.optimizer.state}
                  \cup UNION {HeldBy(sd) : sd \in sds}
        id(i)  == Cardinality({j \in held : j <= i})
        ids(f) == [x \in DOMAIN f |-> id(f[x])]
    IN  [opt |-> [o EXCEPT
                    !.optimizer.state   = ids(@),
                    !.optimizer.buffers = [i \in 1..Cardinality(held) |->
                                             @[CHOOSE j \in held : id(j) = i]]],
         sds |-> {[sd EXCEPT !.optimizer.state = ids(@)] : sd \in sds}]

InitOpt ==
    \E l \in OptLayouts, c \in OptScalerConfigs :
        /\ layout = l
        /\ opt = FP16Optimizer(l.tensors, SGD(l.param_groups, F(1), l.state),
                               GradScaler(c), F(0), NoGroup, NoGroup, NoContext)
        /\ ckpt = {}
        /\ last = Call("init")
        /\ nback = 0
        /\ ScalerIdle
        /\ DistIdle
        /\ TrainIdle
        /\ LoadIdle
        /\ GroupIdle

\* The maximal norms a caller passes to clip_grad_norm.
PublicClipNorms == {F(1)}

\* The learning rates a caller adjusts the groups to.
LearningRates == {F(1), Rat(1, 2)}

\* optimizer.backward(loss)
Backward(g) ==
    /\ nback < MaxSteps
    /\ opt' = backward(opt, g)
    /\ last' = Call("backward")
    /\ nback' = nback + 1
    /\ UNCHANGED <<layout, ckpt, scalerVars, distVars, trainVars, loadVars, groupVars>>

\* optimizer.step()
Step ==
    /\ StepCallable(opt)
    /\ StepRepresentable(opt)
    /\ LET r == step(opt)
       IN  /\ opt' = r.opt
           /\ last' = [Call("step") EXCEPT !.success = r.success,
                                           !.grad_norm = r.grad_norm,
                                           !.error = r.error]
    /\ UNCHANGED <<layout, ckpt, nback, scalerVars, distVars, trainVars, loadVars, groupVars>>

\* optimizer.zero_grad(set_to_none)
ZeroGrad(set_to_none) ==
    /\ opt' = zero_grad(opt, set_to_none)
    /\ last' = Call("zero_grad")
    /\ UNCHANGED <<layout, ckpt, nback, scalerVars, distVars, trainVars, loadVars, groupVars>>

\* sd = optimizer.state_dict(); the caller takes one checkpoint in a run
StateDict ==
    /\ ckpt = {}
    /\ ckpt' = {state_dict(opt)}
    /\ last' = Call("state_dict")
    /\ UNCHANGED <<layout, opt, nback, scalerVars, distVars, trainVars, loadVars, groupVars>>

\* optimizer.load_state_dict(sd) of a state_dict taken earlier
LoadStateDict ==
    /\ \E sd \in ckpt :
        LET c == Collect(load_state_dict(opt, sd), ckpt)
        IN  opt' = c.opt /\ ckpt' = c.sds
    /\ last' = Call("load_state_dict")
    /\ UNCHANGED <<layout, nback, scalerVars, distVars, trainVars, loadVars, groupVars>>

\* optimizer.load_state_dict(optimizer.state_dict())
RoundTrip ==
    /\ LET c == Collect(load_state_dict(opt, state_dict(opt)), ckpt)
       IN  opt' = c.opt /\ ckpt' = c.sds
    /\ last' = Call("round_trip")
    /\ UNCHANGED <<layout, nback, scalerVars, distVars, trainVars, loadVars, groupVars>>

\* grad_norm = optimizer.clip_grad_norm(clip_grad)
ClipGradNorm(clip_grad) ==
    /\ ClipRepresentable(opt, clip_grad)
    /\ LET c == clip_grad_norm(opt, clip_grad)
       IN  /\ opt' = c.opt
           /\ last' = [Call("clip_grad_norm") EXCEPT !.grad_norm = c.grad_norm]
    /\ UNCHANGED <<layout, ckpt, nback, scalerVars, distVars, trainVars, loadVars, groupVars>>

\* optimizer.state = {}: the caller drops the momentum of every parameter.
SetState ==
    /\ LET c == Collect(set_state(opt, << >>), ckpt)
       IN  opt' = c.opt /\ ckpt' = c.sds
    /\ last' = Call("state")
    /\ UNCHANGED <<layout, nback, scalerVars, distVars, trainVars, loadVars, groupVars>>

\* for group in optimizer.param_groups: group['lr'] = lr, then
\* optimizer.param_groups = the adjusted groups.
SetParamGroups(lr) ==
    /\ opt' = set_param_groups(opt, [g \in DOMAIN get_param_groups(opt) |->
                                      [get_param_groups(opt)[g] EXCEPT !.lr = lr]])
    /\ last' = Call("param_groups")
    /\ UNCHANGED <<layout, ckpt, nback, scalerVars, distVars, trainVars, loadVars, groupVars>>

NextOpt ==
    \/ \E g \in BackwardInputs(opt) : Backward(g)
    \/ Step
    \/ \E b \in BOOLEAN : ZeroGrad(b)
    \/ StateDict
    \/ LoadStateDict
    \/ RoundTrip

SpecOpt == InitOpt /\ [][NextOpt]_vars

(***************************************************************************)
(* SpecApi: one FP16Optimizer without process groups, constructed with or  *)
(* without a maximal gradient norm, whose caller also clips the gradients  *)
(* itself and assigns the properties state and param_groups.               *)
(***************************************************************************)
ApiScalerConfigs == {c \in OptScalerConfigs : c.growth_interval = 1}

InitApi ==
    \E l \in OptLayouts, c \in ApiScalerConfigs, n \in ClipNorms :
        /\ layout = l
        /\ opt = FP16Optimizer(l.tensors, SGD(l.param_groups, F(1), l.state),
                               GradScaler(c), n, NoGroup, NoGroup, NoContext)
        /\ ckpt = {}
        /\ last = Call("init")
        /\ nback = 0
        /\ ScalerIdle
        /\ DistIdle
        /\ TrainIdle
        /\ LoadIdle
        /\ GroupIdle

\* optimizer.backward(loss)
ApiBackward(g) ==
    /\ nback < MaxApiSteps
    /\ Backward(g)

NextApi ==
    \/ \E g \in BackwardInputs(opt) : ApiBackward(g)
    \/ Step
    \/ \E b \in BOOLEAN : ZeroGrad(b)
    \/ \E c \in PublicClipNorms : ClipGradNorm(c)
    \/ SetState
    \/ \E lr \in LearningRates : SetParamGroups(lr)

SpecApi == InitApi /\ [][NextApi]_vars

(***************************************************************************)
(* SpecLoad: one FP16Optimizer whose caller takes a checkpoint, trains on  *)
(* and loads the checkpoint, whole or with keys left out.                  *)
(***************************************************************************)
\* copy.deepcopy(sd) in the memory of o (as does torch.load of a saved sd):
\* every master tensor the dictionary lists is cloned into a fresh tensor and
\* every momentum buffer it holds into a fresh buffer; the copy lists the
\* clones.  The result is [opt, sd].
deepcopy(o, sd) ==
    LET ms  == Flatten(sd.fp32_master_param_groups)
        n   == Cardinality(DOMAIN o.tensors)
        at_(p) == CHOOSE i \in 1..Len(ms) : ms[i] = p
        gs  == sd.fp32_master_param_groups
        keys    == DOMAIN sd.optimizer.state
        nb      == Len(o.optimizer.buffers)
        slot(i) == nb + Cardinality({j \in keys : j <= i})
    IN  [opt |-> [o EXCEPT
                    !.tensors =
                        [x \in 1..(n + Len(ms)) |->
                            IF x <= n THEN o.tensors[x] ELSE o.tensors[ms[x - n]]],
                    !.optimizer.buffers =
                        [x \in 1..(nb + Cardinality(keys)) |->
                            IF x <= nb THEN o.optimizer.buffers[x]
                            ELSE o.optimizer.buffers[
                                    sd.optimizer.state[CHOOSE i \in keys : slot(i) = x]]]],
         sd  |-> [sd EXCEPT
                    !.fp32_master_param_groups =
                        [g \in 1..Len(gs) |-> [i \in 1..Len(gs[g]) |-> n + at_(gs[g][i])]],
                    !.optimizer.state = [i \in keys |-> slot(i)]]]

\* The dictionaries a caller may pass that hold some of sd's keys;
\* load_state_dict reads state_dict['optimizer'] unconditionally.
Partial(sd) ==
    { [k \in K \cup {"optimizer"} |-> sd[k]] :
        K \in SUBSET {"grad_scaler", "fp32_master_param_groups"} }

NoSnapshot == [kind |-> "none"]
NothingGiven == [optimizer |-> "none"]

LoadScalerConfigs == {c \in OptScalerConfigs : c.growth_interval = 1}

\* Gradients of the unscaled loss: -1 for every parameter, or 1 for every
\* parameter but the last, whose gradient overflows float16 once scaled.
LoadBackwardInputs(o) ==
    LET final == CHOOSE q \in Trainable(o) : \A p \in Trainable(o) : p <= q
    IN  { [p \in Trainable(o) |-> F(-1)],
          [p \in Trainable(o) |-> IF p = final THEN F(16384) ELSE F(1)] }

InitLoad ==
    \E l \in OptLayouts, c \in LoadScalerConfigs :
        /\ layout = l
        /\ opt = FP16Optimizer(l.tensors, SGD(l.param_groups, F(1), l.state),
                               GradScaler(c), F(0), NoGroup, NoGroup, NoContext)
        /\ ckpt = {}
        /\ last = Call("init")
        /\ nback = 0
        /\ given = NothingGiven
        /\ taken = NoSnapshot
        /\ ScalerIdle
        /\ DistIdle
        /\ TrainIdle
        /\ GroupIdle

\* optimizer.backward(loss), once per step
LoadBackward(g) ==
    /\ nback < MaxLoadSteps
    /\ ~StepCallable(opt)
    /\ opt' = backward(opt, g)
    /\ last' = Call("backward")
    /\ nback' = nback + 1
    /\ UNCHANGED <<layout, ckpt, given, taken, scalerVars, distVars, trainVars, groupVars>>

\* optimizer.step()
LoadStep ==
    /\ StepCallable(opt)
    /\ LET r == step(opt)
       IN  /\ opt' = r.opt
           /\ last' = [Call("step") EXCEPT !.success = r.success,
                                           !.grad_norm = r.grad_norm,
                                           !.error = r.error]
    /\ UNCHANGED <<layout, ckpt, nback, given, taken, scalerVars, distVars, trainVars, groupVars>>

\* sd = optimizer.state_dict(), kept by the caller as it was returned
TakeStateDict ==
    /\ taken = NoSnapshot
    /\ ckpt' = {state_dict(opt)}
    /\ taken' = [kind |-> "state_dict", opt |-> opt]
    /\ last' = Call("state_dict")
    /\ UNCHANGED <<layout, opt, nback, given, scalerVars, distVars, trainVars, groupVars>>

\* sd = copy.deepcopy(optimizer.state_dict())
TakeDeepcopy ==
    /\ taken = NoSnapshot
    /\ LET c == deepcopy(opt, state_dict(opt))
       IN  /\ opt' = c.opt
           /\ ckpt' = {c.sd}
           /\ taken' = [kind |-> "deepcopy", opt |-> c.opt]
    /\ last' = Call("deepcopy")
    /\ UNCHANGED <<layout, nback, given, scalerVars, distVars, trainVars, groupVars>>

\* optimizer.load_state_dict(d)
Load(d) ==
    /\ LET c == Collect(load_state_dict(opt, d), ckpt)
       IN  /\ opt' = c.opt
           /\ ckpt' = c.sds
           /\ given' \in {[k \in DOMAIN d |-> sd[k]] : sd \in c.sds}
    /\ last' = Call("load_state_dict")
    /\ UNCHANGED <<layout, nback, taken, scalerVars, distVars, trainVars, groupVars>>

NextLoad ==
    \/ \E g \in LoadBackwardInputs(opt) : LoadBackward(g)
    \/ LoadStep
    \/ TakeStateDict
    \/ TakeDeepcopy
    \/ \E sd \in ckpt : \E d \in Partial(sd) : Load(d)

SpecLoad == InitLoad /\ [][NextLoad]_vars

(***************************************************************************)
(* SpecNew: one call of FP16Optimizer(optimizer, grad_scaler) over base    *)
(* optimizers whose parameters have any mix of types and requires_grad.    *)
(***************************************************************************)
ParamKinds == {HalfTensor, FloatTensor, BFloat16Tensor} \X BOOLEAN

\* Base optimizers with parameters 1 and 2 in the first group and 3 in the
\* second, without state or with a momentum buffer for every parameter.
NewLayouts ==
    { [tensors      |-> [p \in 1..3 |-> Tensor(kinds[p][1], kinds[p][2], F(p))],
       param_groups |-> << <<1, 2>>, <<3>> >>,
       state        |-> [p \in keys |-> F(10 + p)]] :
        kinds \in [1..3 -> ParamKinds], keys \in {{}, 1..3} }

NewScalerConfig ==
    [initial_scale |-> F(4), min_scale |-> F(1), growth_factor |-> F(2),
     backoff_factor |-> Rat(1, 2), growth_interval |-> 1, hysteresis |-> 1,
     max_scale |-> None]

InitNew ==
    \E l \in NewLayouts :
        /\ layout = l
        /\ opt = NotBuilt
        /\ ckpt = {}
        /\ last = Unused
        /\ nback = 0
        /\ ScalerIdle
        /\ DistIdle
        /\ TrainIdle
        /\ LoadIdle
        /\ GroupIdle

\* opt = FP16Optimizer(optimizer, grad_scaler)
New ==
    /\ opt = NotBuilt
    /\ \E s \in {DynamicGradScaler(NewScalerConfig), GradScaler(NewScalerConfig)} :
        opt' = FP16Optimizer(layout.tensors,
                             SGD(layout.param_groups, F(1), layout.state),
                             s, F(0), NoGroup, NoGroup, NoContext)
    /\ UNCHANGED <<layout, ckpt, last, nback, scalerVars, distVars, trainVars, loadVars, groupVars>>

NextNew == New

SpecNew == InitNew /\ [][NextNew]_vars

(***************************************************************************)
(* SpecDist: four ranks, two-way data parallel times two-way model         *)
(* parallel, each running backward() and step() on its own FP16Optimizer.  *)
(* The ranks meet only in the all_reduce calls of _check_overflow.         *)
(***************************************************************************)
Ranks == 0..3
DataGroups == {{0, 2}, {1, 3}}
ModelGroups == {{0, 1}, {2, 3}}
GroupOf(groups, r) == CHOOSE G \in groups : r \in G

\* The global context of rank r: gpc.is_initialized(DATA),
\* gpc.get_world_size(DATA), gpc.get_group(DATA), gpc.get_group(MODEL).
ContextOf(r) ==
    [data_initialized |-> TRUE,
     data_world_size  |-> Cardinality(GroupOf(DataGroups, r)),
     data_group       |-> GroupOf(DataGroups, r),
     model_group      |-> GroupOf(ModelGroups, r)]

\* "explicit": the caller passes gpc.get_group(DATA) and gpc.get_group(MODEL);
\* "default": the caller passes neither and __init__ resolves them.
Constructions == {"explicit", "default"}

\* Every rank holds one trainable Half parameter and a scaler that starts at 4,
\* grows after every clean step and backs off at the first overflow.
DistLayout ==
    [tensors      |-> <<Tensor(HalfTensor, TRUE, F(1))>>,
     param_groups |-> <<<<1>>>>,
     state        |-> << >>]
DistScalerConfig ==
    [initial_scale |-> F(4), min_scale |-> F(1), growth_factor |-> F(2),
     backoff_factor |-> Rat(1, 2), growth_interval |-> 1, hysteresis |-> 1,
     max_scale |-> None]

\* Gradients of the unscaled loss on one rank: 1, or 16384, which overflows
\* float16 once multiplied by the scale.
DistBackwardInputs(o) ==
    { [p \in Trainable(o) |-> F(1)], [p \in Trainable(o) |-> F(16384)] }

\* dist.all_reduce(tensor, op=MAX, group): collectives on one group are matched
\* in the order each member issues them.  A call contributes the caller's
\* value as its n-th on the group; it returns once every member has
\* contributed its n-th, with the maximum.
Issued(w, G, r) == Cardinality({c \in w : c.group = G /\ c.rank = r})
Contribute(w, G, r, v) ==
    w \cup {[group |-> G, n |-> Issued(w, G, r) + 1, rank |-> r, value |-> v]}
Matched(w, G, r) == {c \in w : c.group = G /\ c.n = Issued(w, G, r)}
Arrived(w, G, r) == {c.rank : c \in Matched(w, G, r)} = G
Reduced(w, G, r) == all_reduce_max({c.value : c \in Matched(w, G, r)})

InitDist ==
    \E m \in Constructions :
        /\ world = m
        /\ node = [r \in Ranks |->
                    FP16Optimizer(DistLayout.tensors,
                        SGD(DistLayout.param_groups, F(1), DistLayout.state),
                        GradScaler(DistScalerConfig), F(0),
                        IF m = "explicit" THEN ContextOf(r).data_group ELSE NoGroup,
                        IF m = "explicit" THEN ContextOf(r).model_group ELSE NoGroup,
                        ContextOf(r))]
        /\ pc = [r \in Ranks |-> "Idle"]
        /\ wire = {}
        /\ log = [r \in Ranks |-> << >>]
        /\ ScalerIdle
        /\ OptIdle
        /\ TrainIdle
        /\ LoadIdle
        /\ GroupIdle

\* optimizer.backward(loss) on rank r, once per step
DistBackward(r, g) ==
    /\ pc[r] = "Idle"
    /\ Len(log[r]) < MaxDistSteps
    /\ ~StepCallable(node[r])
    /\ node' = [node EXCEPT ![r] = backward(node[r], g)]
    /\ UNCHANGED <<world, pc, wire, log, scalerVars, optVars, trainVars, loadVars, groupVars>>

\* The rest of step() on rank r once _check_overflow has combined its flag:
\* o is the optimizer with the flag in found_overflow.  No rank assigns
\* optimizer.state, so the base optimizer's step does not raise.
Finish(r, o) ==
    LET res == step_finish(o, o.found_overflow > 0)
    IN  /\ node' = [node EXCEPT ![r] = res.opt]
        /\ pc' = [pc EXCEPT ![r] = "Idle"]
        /\ log' = [log EXCEPT ![r][Len(log[r])] =
                    [@ EXCEPT !.done = TRUE,
                              !.overflow = o.found_overflow > 0,
                              !.success = res.success,
                              !.scaler = res.opt.grad_scaler]]
        /\ wire' = wire

\* _check_overflow from the test of mp_process_group on.
EnterModelReduce(r, o) ==
    IF o.mp_process_group # NoGroup
    THEN /\ node' = [node EXCEPT ![r] = o]
         /\ pc' = [pc EXCEPT ![r] = "ReduceMP"]
         /\ wire' = Contribute(wire, o.mp_process_group, r, o.found_overflow)
         /\ log' = log
    ELSE Finish(r, o)

\* step() on rank r up to its first all_reduce: the gradients are assigned and
\* unscaled, the local scan sets the flag, and the flag is contributed to the
\* data-parallel group.
EnterStep(r) ==
    /\ pc[r] = "Idle"
    /\ StepCallable(node[r])
    /\ LET o == step_begin(node[r])
           e == [local |-> o.found_overflow > 0, done |-> FALSE, overflow |-> FALSE,
                 success |-> FALSE, scaler |-> o.grad_scaler]
       IN  /\ o.dp_process_group # NoGroup
           /\ node' = [node EXCEPT ![r] = o]
           /\ pc' = [pc EXCEPT ![r] = "ReduceDP"]
           /\ wire' = Contribute(wire, o.dp_process_group, r, o.found_overflow)
           /\ log' = [log EXCEPT ![r] = Append(@, e)]
    /\ UNCHANGED <<world, scalerVars, optVars, trainVars, loadVars, groupVars>>

\* The all_reduce over dp_process_group returns on rank r; the flag goes on to
\* the all_reduce over mp_process_group.
DataReduceReturns(r) ==
    /\ pc[r] = "ReduceDP"
    /\ Arrived(wire, node[r].dp_process_group, r)
    /\ EnterModelReduce(r, [node[r] EXCEPT
            !.found_overflow = Reduced(wire, node[r].dp_process_group, r)])
    /\ UNCHANGED <<world, scalerVars, optVars, trainVars, loadVars, groupVars>>

\* The all_reduce over mp_process_group returns on rank r, and step() runs to
\* its return.
ModelReduceReturns(r) ==
    /\ pc[r] = "ReduceMP"
    /\ Arrived(wire, node[r].mp_process_group, r)
    /\ Finish(r, [node[r] EXCEPT
            !.found_overflow = Reduced(wire, node[r].mp_process_group, r)])
    /\ UNCHANGED <<world, scalerVars, optVars, trainVars, loadVars, groupVars>>

NextDist ==
    \/ \E r \in Ranks : \E g \in DistBackwardInputs(node[r]) : DistBackward(r, g)
    \/ \E r \in Ranks : EnterStep(r)
    \/ \E r \in Ranks : DataReduceReturns(r)
    \/ \E r \in Ranks : ModelReduceReturns(r)

SpecDist == InitDist /\ [][NextDist]_vars

\* Weak fairness of the returns of all_reduce: an all_reduce that is ready to
\* return does return, and step() then runs to its return, so no rank stays
\* in a ready all_reduce for ever.  Whether a rank calls backward() and step()
\* at all is up to its training loop.
\* Rank r waits in an all_reduce to which every member has contributed: the
\* call is ready to return.
Pending(r) ==
    \/ pc[r] = "ReduceDP" /\ Arrived(wire, node[r].dp_process_group, r)
    \/ pc[r] = "ReduceMP" /\ Arrived(wire, node[r].mp_process_group, r)

\* The all_reduce rank r waits in returns: r leaves "ReduceDP" or "ReduceMP".
\* Under SpecDist the steps that do so are those of DataReduceReturns(r) and
\* ModelReduceReturns(r), which are enabled exactly when Pending(r) holds.
ReduceReturns(r) ==
    /\ Pending(r)
    /\ pc' \in {[pc EXCEPT ![r] = s] : s \in {"Idle", "ReduceMP"} \ {pc[r]}}

SpecDistFair == SpecDist /\ \A r \in Ranks : WF_pc(ReduceReturns(r))

(***************************************************************************)
(* SpecTrain: one process without process groups running the training      *)
(* loop  backward(loss); step()  with step() taken one statement at a     *)
(* time.  at names the stage step() has reached.                           *)
(***************************************************************************)
\* step() with scaler.update called only on the path that steps.
NextStatement_UpdateOnlyWhenStepping(stage, overflow, clip) ==
    CASE stage = "Called"            -> "assign_grad"
      [] stage = "GradientsAssigned" -> "unscale_grads"
      [] stage = "Unscaled"          -> "check_overflow"
      [] stage = "OverflowChecked"   -> IF overflow THEN "zero_grad" ELSE "scaler_update"
      [] stage = "ScalerUpdated"     -> IF clip THEN "clip_grad_norm" ELSE "base_step"
      [] stage = "Clipped"           -> "base_step"
      [] stage = "BaseStepped"       -> "copy_back"
      [] OTHER                       -> "none"

\* step() with the overflow scan before the unscaling.
NextStatement_ScanBeforeUnscale(stage, overflow, clip) ==
    CASE stage = "Called"            -> "assign_grad"
      [] stage = "GradientsAssigned" -> "check_overflow"
      [] stage = "OverflowChecked"   -> "unscale_grads"
      [] stage = "Unscaled"          -> "scaler_update"
      [] stage = "ScalerUpdated"     -> IF overflow THEN "zero_grad"
                                        ELSE IF clip THEN "clip_grad_norm"
                                        ELSE "base_step"
      [] stage = "Clipped"           -> "base_step"
      [] stage = "BaseStepped"       -> "copy_back"
      [] OTHER                       -> "none"

\* The control flow of step(): the statement that runs next from a stage,
\* where overflow is the local variable set from _check_overflow() and clip
\* is self._clip_grad_max_norm > 0.0.
NextStatement(stage, overflow, clip) ==
    CASE stage = "Called"            -> "assign_grad"
      [] stage = "GradientsAssigned" -> "unscale_grads"
      [] stage = "Unscaled"          -> "check_overflow"
      [] stage = "OverflowChecked"   -> "scaler_update"
      [] stage = "ScalerUpdated"     -> IF overflow THEN "zero_grad"
                                        ELSE IF clip THEN "clip_grad_norm"
                                        ELSE "base_step"
      [] stage = "Clipped"           -> "base_step"
      [] stage = "BaseStepped"       -> "copy_back"
      [] OTHER                       -> "none"

\* The base optimizer of o run unwrapped: Float32 parameters that start at the
\* masters' values, with the momentum the masters have and the learning rates
\* of o's groups.  clipped tells whether a clip_grad_norm of o has scaled
\* gradients since.
Reference(o) ==
    LET ms == Members(o.fp32_master_param_groups)
    IN  [tensors      |-> [m \in ms |-> [o.tensors[m] EXCEPT !.grad = None]],
         param_groups |-> o.fp32_master_param_groups,
         lr           |-> o.optimizer.lr,
         defaultdict  |-> TRUE,
         state        |-> [m \in ms \cap DOMAIN o.optimizer.state |-> o.optimizer.state[m]],
         buffers      |-> o.optimizer.buffers,
         scale        |-> o.grad_scaler.scale,
         live         |-> [pr \in Pairs(o) |-> None],
         clipped      |-> FALSE]

\* torch_optimizer.step(): the reference runs the base optimizer's step on
\* the gradients of the unscaled loss, once amp_optimizer.step() has
\* returned, skipped or not.
torch_optimizer_step(r) ==
    CHOOSE x \in { [r EXCEPT !.tensors = b.tensors,
                             !.state = b.state,
                             !.buffers = b.buffers] :
                       b \in {base_step(r.tensors, r)} } : TRUE

Overflow == opt.found_overflow > 0
Next_(stmt) == NextStatement(at, Overflow, FLt(F(0), opt.clip_grad_max_norm)) = stmt
Ran(stmt) == Append(trace, [stmt |-> stmt, flag |-> Overflow'])
Returned(success) ==
    Append(outcomes, [overflow |-> Overflow, success |-> success, grad_norm |-> last.grad_norm])

InitTrain ==
    \E l \in OptLayouts, c \in OptScalerConfigs, n \in ClipNorms :
        /\ layout = l
        /\ opt = FP16Optimizer(l.tensors, SGD(l.param_groups, F(1), l.state),
                               GradScaler(c), n, NoGroup, NoGroup, NoContext)
        /\ ckpt = {}
        /\ last = Call("init")
        /\ nback = 0
        /\ at = "Idle"
        /\ trace = << >>
        /\ entry = opt
        /\ ref = Reference(opt)
        /\ outcomes = << >>
        /\ ScalerIdle
        /\ DistIdle
        /\ LoadIdle
        /\ GroupIdle

\* optimizer.backward(loss); the reference gets the gradients of the unscaled
\* loss.  The loss is one whose gradients the step that follows can clip
\* within the values of the model.
TrainBackward(g) ==
    /\ at = "Idle"
    /\ last.op # "backward"
    /\ nback < MaxTrainSteps
    /\ StepRepresentable(backward(opt, g))
    /\ opt' = backward(opt, g)
    /\ ref' = [ref EXCEPT
                 !.scale = opt.grad_scaler.scale,
                 !.live = [pr \in Pairs(opt) |-> opt'.tensors[pr[1]].grad],
                 !.tensors = [m \in DOMAIN ref.tensors |->
                     LET pr == CHOOSE x \in Pairs(opt) : x[2] = m
                     IN  [ref.tensors[m] EXCEPT !.grad = g[pr[1]]]]]
    /\ last' = Call("backward")
    /\ nback' = nback + 1
    /\ UNCHANGED <<layout, ckpt, at, trace, entry, outcomes, scalerVars, distVars, loadVars, groupVars>>

\* optimizer.step() is called
CallStep ==
    /\ at = "Idle"
    /\ last.op = "backward"
    /\ at' = "Called"
    /\ trace' = << >>
    /\ entry' = opt
    /\ last' = Call("step")
    /\ UNCHANGED <<layout, opt, ckpt, nback, ref, outcomes, scalerVars, distVars, loadVars, groupVars>>

\* self._assign_grad_to_fp32_master_param()
AssignGrads ==
    /\ Next_("assign_grad")
    /\ opt' = assign_grad_to_fp32_master_param(opt)
    /\ at' = "GradientsAssigned"
    /\ trace' = Ran("assign_grad")
    /\ UNCHANGED <<layout, ckpt, last, nback, entry, ref, outcomes, scalerVars, distVars, loadVars, groupVars>>

\* self._unscale_grads()
Unscale ==
    /\ Next_("unscale_grads")
    /\ opt' = unscale_grads(opt)
    /\ at' = "Unscaled"
    /\ trace' = Ran("unscale_grads")
    /\ UNCHANGED <<layout, ckpt, last, nback, entry, ref, outcomes, scalerVars, distVars, loadVars, groupVars>>

\* overflow = self._check_overflow(), both process groups being None
CheckOverflow ==
    /\ Next_("check_overflow")
    /\ opt' = check_overflow_local(opt)
    /\ at' = "OverflowChecked"
    /\ trace' = Ran("check_overflow")
    /\ UNCHANGED <<layout, ckpt, last, nback, entry, ref, outcomes, scalerVars, distVars, loadVars, groupVars>>

\* self._grad_scaler.update(overflow)
ScalerUpdate ==
    /\ Next_("scaler_update")
    /\ opt' = [opt EXCEPT !.grad_scaler = update(@, Overflow)]
    /\ at' = "ScalerUpdated"
    /\ trace' = Ran("scaler_update")
    /\ UNCHANGED <<layout, ckpt, last, nback, entry, ref, outcomes, scalerVars, distVars, loadVars, groupVars>>

\* self.zero_grad(); return False, None.  The reference optimizer steps all
\* the same, on the gradients its own backward left.
ReleaseGrads ==
    /\ Next_("zero_grad")
    /\ opt' = zero_grad(opt, TRUE)
    /\ ref' = torch_optimizer_step(ref)
    /\ at' = "Idle"
    /\ trace' = Ran("zero_grad")
    /\ outcomes' = Returned(FALSE)
    /\ UNCHANGED <<layout, ckpt, last, nback, entry, scalerVars, distVars, loadVars, groupVars>>

\* grad_norm = self.clip_grad_norm(self._clip_grad_max_norm)
ClipGrads ==
    /\ Next_("clip_grad_norm")
    /\ \E c \in {clip_grad_norm(opt, opt.clip_grad_max_norm)} :
           /\ opt' = c.opt
           /\ last' = [last EXCEPT !.grad_norm = c.grad_norm]
           /\ ref' = [ref EXCEPT !.clipped = @ \/ c.opt.tensors # opt.tensors]
    /\ at' = "Clipped"
    /\ trace' = Ran("clip_grad_norm")
    /\ UNCHANGED <<layout, ckpt, nback, entry, outcomes, scalerVars, distVars, loadVars, groupVars>>

\* self._optimizer.step().  A step that raises ends step() with its
\* exception, and the reference optimizer is not stepped.
BaseStep ==
    /\ Next_("base_step")
    /\ LET b == base_step(opt.tensors, opt.optimizer)
       IN  /\ opt' = [opt EXCEPT !.tensors = b.tensors,
                                 !.optimizer.state = b.state,
                                 !.optimizer.buffers = b.buffers]
           /\ at' = IF b.error = "none" THEN "BaseStepped" ELSE "Idle"
           /\ last' = [last EXCEPT !.error = b.error]
    /\ trace' = Ran("base_step")
    /\ UNCHANGED <<layout, ckpt, nback, entry, ref, outcomes, scalerVars, distVars, loadVars, groupVars>>

\* self._update_fp16_param_from_fp32_param(); return True, grad_norm.  The
\* reference optimizer steps once step() has returned.
CopyBack ==
    /\ Next_("copy_back")
    /\ opt' = update_fp16_param_from_fp32_param(opt)
    /\ ref' = torch_optimizer_step(ref)
    /\ at' = "Idle"
    /\ trace' = Ran("copy_back")
    /\ outcomes' = Returned(TRUE)
    /\ UNCHANGED <<layout, ckpt, last, nback, entry, scalerVars, distVars, loadVars, groupVars>>

NextTrain ==
    \/ \E g \in BackwardInputs(opt) : TrainBackward(g)
    \/ CallStep
    \/ AssignGrads
    \/ Unscale
    \/ CheckOverflow
    \/ ScalerUpdate
    \/ ReleaseGrads
    \/ ClipGrads
    \/ BaseStep
    \/ CopyBack

SpecTrain == InitTrain /\ [][NextTrain]_vars

\* backward(loss) returns: the training loop can always go on with a loss
\* whose gradients overflow.
BackwardReturns ==
    /\ at = "Idle"
    /\ last.op # "backward"
    /\ nback < MaxTrainSteps
    /\ nback' = nback + 1

\* step() is called after backward, and a step() under way runs its next
\* statement.
StatementRuns ==
    /\ at # "Idle" \/ last.op = "backward"
    /\ at' \in {"Idle", "Called", "GradientsAssigned", "Unscaled", "OverflowChecked",
               "ScalerUpdated", "Clipped", "BaseStepped"} \ {at}

\* The training loop keeps running: a process that can take its next
\* statement takes it.
SpecTrainFair == SpecTrain /\ WF_nback(BackwardReturns) /\ WF_at(StatementRuns)

(***************************************************************************)
(* SpecGroups: colossalai/context/process_group_initializer/               *)
(* initializer_2p5d.py.  One rank constructs one of the four 2.5D          *)
(* initializers and runs its init_dist_group(); every action below is one  *)
(* iteration of its loop nest, which calls dist.new_group(ranks) once.     *)
(* The base class constructor keeps rank, world_size and                   *)
(* tensor_parallel_size under the names init_dist_group reads them by.     *)
(***************************************************************************)
ParallelModes == {"PARALLEL_2P5D_ROW", "PARALLEL_2P5D_COL", "PARALLEL_2P5D_DEP", "PARALLEL_2P5D_XZ"}

\* Python's None for a local of init_dist_group is the empty set and a value
\* x is {x}.
NoValue == {}
Value(x) == {x}

\* Initializer_2p5D_ROW(tesseract_dim, tesseract_dep, rank, world_size, ...,
\* tensor_parallel_size), and likewise _Col, _Dep, _XZ: the constructor
\* divides world_size by tensor_parallel_size and then asserts
\* tensor_parallel_size = tesseract_dim ** 2 * tesseract_dep.
Initializer_2p5D(mode, tesseract_dim, tesseract_dep, rank, world_size, tensor_parallel_size) ==
    IF tensor_parallel_size = 0 THEN ZeroDivisionError
    ELSE IF tensor_parallel_size = tesseract_dim * tesseract_dim * tesseract_dep
    THEN [mode |-> mode,
          rank |-> rank,
          world_size |-> world_size,
          tensor_parallel_size |-> tensor_parallel_size,
          num_group |-> world_size \div tensor_parallel_size,
          tesseract_dep |-> tesseract_dep,
          tesseract_dim |-> tesseract_dim]
    ELSE AssertionError

\* h * tensor_parallel_size + i + tesseract_dim * (j + tesseract_dim * k) with
\* the stride of k taken from tesseract_dep.
RankAt_DepStride(p, h, i, j, k) ==
    h * p.tensor_parallel_size + i + p.tesseract_dim * (j + p.tesseract_dep * k)

\* The element of every ranks list:
\* h * self.tensor_parallel_size + i + self.tesseract_dim * (j + self.tesseract_dim * k)
RankAt(p, h, i, j, k) ==
    h * p.tensor_parallel_size + i + p.tesseract_dim * (j + p.tesseract_dim * k)

\* ranks.index(x): the 0-based position of the first x in ranks.
index(ranks, x) ==
    (CHOOSE n \in 1..Len(ranks) :
        ranks[n] = x /\ \A m \in 1..(n - 1) : ranks[m] # x) - 1

\* The ranks list of iteration m (0-based) of each loop nest.
\* ROW: for h, for j, for k: [... for i in range(tesseract_dim)]
RowRanks(p, m) ==
    LET k == m % p.tesseract_dep
        j == (m \div p.tesseract_dep) % p.tesseract_dim
        h == m \div (p.tesseract_dep * p.tesseract_dim)
    IN  [n \in 1..p.tesseract_dim |-> RankAt(p, h, n - 1, j, k)]
\* Col: for h, for i, for k: [... for j in range(tesseract_dim)]
ColRanks(p, m) ==
    LET k == m % p.tesseract_dep
        i == (m \div p.tesseract_dep) % p.tesseract_dim
        h == m \div (p.tesseract_dep * p.tesseract_dim)
    IN  [n \in 1..p.tesseract_dim |-> RankAt(p, h, i, n - 1, k)]
\* Dep: for h, for i, for j: [... for k in range(tesseract_dep)]
DepRanks(p, m) ==
    LET j == m % p.tesseract_dim
        i == (m \div p.tesseract_dim) % p.tesseract_dim
        h == m \div (p.tesseract_dim * p.tesseract_dim)
    IN  [n \in 1..p.tesseract_dep |-> RankAt(p, h, i, j, n - 1)]
\* XZ: for h, for i: [... for k in range(tesseract_dep) for j in range(tesseract_dim)]
XZRanks(p, m) ==
    LET i == m % p.tesseract_dim
        h == m \div p.tesseract_dim
    IN  [n \in 1..(p.tesseract_dep * p.tesseract_dim) |->
            RankAt(p, h, i, (n - 1) % p.tesseract_dim, (n - 1) \div p.tesseract_dim)]

\* Number of iterations of each loop nest.
Iterations(p) ==
    IF p.mode = "PARALLEL_2P5D_XZ"
    THEN p.num_group * p.tesseract_dim
    ELSE IF p.mode = "PARALLEL_2P5D_DEP"
         THEN p.num_group * p.tesseract_dim * p.tesseract_dim
         ELSE p.num_group * p.tesseract_dim * p.tesseract_dep

\* The locals of init_dist_group before its loop.
NoLocals ==
    [local_rank |-> NoValue, group_world_size |-> NoValue,
     process_group |-> NoValue, ranks_in_group |-> NoValue]

\* The body of every loop: group = dist.new_group(ranks), the handle being
\* the number of the call, and the four assignments if self.rank in ranks.
LoopBody(p, f, handle, ranks) ==
    IF p.rank \in Range(ranks)
    THEN [local_rank |-> Value(index(ranks, p.rank)),
          group_world_size |-> Value(Len(ranks)),
          process_group |-> Value(handle),
          ranks_in_group |-> Value(ranks)]
    ELSE f

InitGroups ==
    \E mode \in ParallelModes, dim \in 1..MaxDim, dep \in 1..MaxDep,
       world_size \in 1..MaxWorldSize :
        \E rank \in 0..(world_size - 1) :
            /\ pgi = Initializer_2p5D(mode, dim, dep, rank, world_size, dim * dim * dep)
            /\ made = << >>
            /\ found = NoLocals
            /\ returned = {}
            /\ ScalerIdle
            /\ OptIdle
            /\ DistIdle
            /\ TrainIdle
            /\ LoadIdle

\* One iteration of a loop nest.
Iteration(mode, ranks) ==
    /\ pgi.mode = mode
    /\ returned = {}
    /\ Len(made) < Iterations(pgi)
    /\ made' = Append(made, ranks)
    /\ found' = LoopBody(pgi, found, Len(made) + 1, ranks)
    /\ UNCHANGED <<pgi, returned, scalerVars, optVars, distVars, trainVars, loadVars>>

\* Initializer_2p5D_ROW.init_dist_group, one iteration
RowNewGroup == Iteration("PARALLEL_2P5D_ROW", RowRanks(pgi, Len(made)))
\* Initializer_2p5D_Col.init_dist_group, one iteration
ColNewGroup == Iteration("PARALLEL_2P5D_COL", ColRanks(pgi, Len(made)))
\* Initializer_2p5D_Dep.init_dist_group, one iteration
DepNewGroup == Iteration("PARALLEL_2P5D_DEP", DepRanks(pgi, Len(made)))
\* Initializer_2p5D_XZ.init_dist_group, one iteration
XZNewGroup == Iteration("PARALLEL_2P5D_XZ", XZRanks(pgi, Len(made)))

\* return local_rank, group_world_size, process_group, ranks_in_group, mode
ReturnGroup ==
    /\ returned = {}
    /\ Len(made) = Iterations(pgi)
    /\ returned' = {[local_rank |-> found.local_rank,
                     group_world_size |-> found.group_world_size,
                     process_group |-> found.process_group,
                     ranks_in_group |-> found.ranks_in_group,
                     mode |-> pgi.mode]}
    /\ UNCHANGED <<pgi, made, found, scalerVars, optVars, distVars, trainVars, loadVars>>

NextGroups ==
    \/ RowNewGroup
    \/ ColNewGroup
    \/ DepNewGroup
    \/ XZNewGroup
    \/ ReturnGroup

SpecGroups == InitGroups /\ [][NextGroups]_vars

(***************************************************************************)
(* Claims about DynamicGradScaler (checked under SpecScaler).              *)
(***************************************************************************)
\* The scaler's state after the i-th update() call; i = 0 is construction.
ScaleAfter(i) == IF i = 0 THEN config.initial_scale ELSE hist[i].scale
GrowthTrackerAfter(i) == IF i = 0 THEN 0 ELSE hist[i].growth_tracker
HysteresisTrackerAfter(i) == IF i = 0 THEN config.hysteresis ELSE hist[i].hysteresis_tracker
\* Calls i+1 .. i+k all had found_inf = b.
RunOf(b, i, k) == \A j \in (i + 1)..(i + k) : hist[j].found_inf = b
BackedOff(x) == FMax(FMul(x, config.backoff_factor), config.min_scale)

\* C3 (as claimed): after every update() call min_scale <= scale, and when
\* max_scale is set scale <= max_scale.
C3_ScaleBounds ==
    /\ FLe(scaler.min_scale, scaler.scale)
    /\ (scaler.max_scale # None => FLe(scaler.scale, scaler.max_scale))

\* C4 (as claimed): from a fresh scaler the first h consecutive overflow
\* updates leave scale unchanged and the (h+1)-th cuts it to
\* max(scale * backoff_factor, min_scale).
C4_Original ==
    \A k \in 1..Len(hist) :
        RunOf(TRUE, 0, k) =>
            /\ (k <= config.hysteresis => hist[k].scale = config.initial_scale)
            /\ (k = config.hysteresis + 1 =>
                    hist[k].scale = BackedOff(config.initial_scale))

\* C4 (amended): from a fresh scaler with hysteresis = h the first h - 1
\* consecutive overflow updates leave scale unchanged and the h-th sets it to
\* max(scale * backoff_factor, min_scale), which is below the initial scale
\* whenever the initial scale is above min_scale.
C4_Hysteresis ==
    \A k \in 1..Len(hist) :
        RunOf(TRUE, 0, k) =>
            /\ (k < config.hysteresis => hist[k].scale = config.initial_scale)
            /\ (k = config.hysteresis =>
                    /\ hist[k].scale = BackedOff(config.initial_scale)
                    /\ (FLt(config.min_scale, config.initial_scale) =>
                            FLt(hist[k].scale, config.initial_scale)))

\* Witness of C4: three overflows in a row on a scaler with hysteresis 3; the
\* third one cut the scale.
C4_Witness ==
    /\ config.hysteresis = 3
    /\ Len(hist) = 3
    /\ RunOf(TRUE, 0, 3)
    /\ hist[2].scale = config.initial_scale
    /\ FLt(hist[3].scale, config.initial_scale)

\* C5: from a state with growth_tracker = 0, the first growth_interval - 1
\* consecutive non-overflow updates leave scale unchanged; the
\* growth_interval-th resets growth_tracker to 0 and hysteresis_tracker to
\* hysteresis and multiplies scale by growth_factor, unless max_scale is set
\* and scale >= max_scale, when scale stays.
C5_Growth ==
    \A i \in 0..Len(hist) : \A k \in 1..Len(hist) :
        (i + k <= Len(hist) /\ GrowthTrackerAfter(i) = 0 /\ RunOf(FALSE, i, k)) =>
            /\ (k < config.growth_interval => ScaleAfter(i + k) = ScaleAfter(i))
            /\ (k = config.growth_interval =>
                    /\ GrowthTrackerAfter(i + k) = 0
                    /\ HysteresisTrackerAfter(i + k) = config.hysteresis
                    /\ ScaleAfter(i + k) =
                          IF config.max_scale # None
                             /\ FLe(config.max_scale, ScaleAfter(i))
                          THEN ScaleAfter(i)
                          ELSE FMul(ScaleAfter(i), config.growth_factor))

\* Witness of C5: an overflow that used up part of the hysteresis budget,
\* then growth_interval = 2 clean updates; the second one grew the scale and
\* refilled the budget.
C5_Witness ==
    /\ config.growth_interval = 2
    /\ config.hysteresis >= 2
    /\ Len(hist) = 3
    /\ hist[1].found_inf
    /\ hist[1].hysteresis_tracker < config.hysteresis
    /\ RunOf(FALSE, 1, 2)
    /\ hist[2].scale = hist[1].scale
    /\ FLt(hist[2].scale, hist[3].scale)
    /\ hist[3].hysteresis_tracker = config.hysteresis

\* The scenario of C6.
C6_Config ==
    [initial_scale |-> F(8), min_scale |-> F(1), growth_factor |-> F(2),
     backoff_factor |-> Rat(1, 2), growth_interval |-> 2, hysteresis |-> 1,
     max_scale |-> None]
C6_Calls == <<FALSE, FALSE, TRUE, FALSE, FALSE>>
C6_Scenario ==
    /\ config = C6_Config
    /\ Len(hist) = Len(C6_Calls)
    /\ \A i \in 1..Len(C6_Calls) : hist[i].found_inf = C6_Calls[i]
ScaleSequence == [i \in 1..(Len(hist) + 1) |-> ScaleAfter(i - 1)]

\* C6 (as claimed): the scenario's scale sequence is [8, 8, 16, 8, 8, 8].
C6_Original ==
    C6_Scenario => ScaleSequence = <<F(8), F(8), F(16), F(8), F(8), F(8)>>

\* C6 (amended): the scenario's scale sequence is [8, 8, 16, 8, 8, 16]: the
\* two clean updates after the overflow are a full growth interval.
C6_LiteralTrace ==
    C6_Scenario => ScaleSequence = <<F(8), F(8), F(16), F(8), F(8), F(16)>>

\* Witness of C6: the scenario has been run to its end.
C6_Witness == C6_Scenario /\ scaler.scale = F(16)

\* C7: once twin (built with the same configuration) has loaded scaler's
\* state_dict, the two show the same scale, growth_tracker, hysteresis_tracker
\* and max_scale after every further sequence of update() calls; loading a
\* scaler's own state_dict changes nothing of it.
C7_RoundTrip ==
    restored >= 0 =>
        /\ twin.scale = scaler.scale
        /\ twin.growth_tracker = scaler.growth_tracker
        /\ twin.hysteresis_tracker = scaler.hysteresis_tracker
        /\ twin.max_scale = scaler.max_scale

\* Witness of C7: the state_dict was taken with part of the hysteresis budget
\* used and the scale moved, and two more updates were made after the load.
C7_Witness ==
    /\ restored >= 2
    /\ Len(hist) >= restored + 2
    /\ hist[restored].scale # config.initial_scale
    /\ hist[restored].hysteresis_tracker # config.hysteresis
    /\ hist[restored].growth_tracker # 0
    /\ scaler.scale # hist[restored].scale

(***************************************************************************)
(* Claims about one FP16Optimizer (checked under SpecOpt).                 *)
(***************************************************************************)
MasterValues(o) ==
    [m \in Members(o.fp32_master_param_groups) |-> o.tensors[m].data]
ScalerState(o) ==
    <<o.grad_scaler.scale, o.grad_scaler.max_scale,
      o.grad_scaler.growth_tracker, o.grad_scaler.hysteresis_tracker>>

\* The base optimizer's state as the caller reads it: the groups, their
\* learning rates and the value of every parameter's momentum buffer.
BaseState(o) ==
    [param_groups |-> o.optimizer.param_groups,
     lr           |-> o.optimizer.lr,
     state        |-> momentum_buffer(o.optimizer)]

\* C8: load_state_dict(state_dict()) on an optimizer between steps leaves every
\* master value, the scaler's scale, max_scale, growth_tracker and
\* hysteresis_tracker, and the base optimizer's state as they were.
C8_CheckpointFidelity ==
    [][RoundTrip =>
          /\ MasterValues(opt') = MasterValues(opt)
          /\ ScalerState(opt') = ScalerState(opt)
          /\ BaseState(opt') = BaseState(opt)]_vars

\* Witness of C8: the round trip was made after a successful step that moved
\* the scale, left momentum in the base optimizer and a master at a value that
\* float16 cannot hold.
C8_Witness ==
    /\ last.op = "round_trip"
    /\ opt.grad_scaler.scale # F(4)
    /\ DOMAIN opt.optimizer.state # {}
    /\ \E pr \in Pairs(opt) : opt.tensors[pr[2]].data # ToFloat(opt.tensors[pr[1]].data)

\* The entries of the base optimizer FP16Optimizer was constructed over.
IsHalf(p) == layout.tensors[p].dtype = HalfTensor
IsTrainableHalf(p) == IsHalf(p) /\ layout.tensors[p].requires_grad
\* The master lists pair with the given lists of Half entries: same lengths,
\* and the i-th master of a group sits in the base optimizer's slot that held
\* the i-th Half entry; every master is a Float32 tensor of its own.
PairedWith(halves) ==
    /\ Len(opt.fp16_param_groups) = Len(layout.param_groups)
    /\ Len(opt.fp32_master_param_groups) = Len(layout.param_groups)
    /\ \A g \in 1..Len(layout.param_groups) :
        /\ opt.fp16_param_groups[g] = halves[g]
        /\ Len(opt.fp32_master_param_groups[g]) = Len(halves[g])
        /\ \A i \in 1..Len(opt.fp32_master_param_groups[g]) :
            LET m == opt.fp32_master_param_groups[g][i]
            IN  /\ m \notin DOMAIN layout.tensors
                /\ opt.tensors[m].dtype = FloatTensor
                /\ \E x \in 1..Len(layout.param_groups[g]) :
                      /\ layout.param_groups[g][x] = halves[g][i]
                      /\ opt.optimizer.param_groups[g][x] = m
    /\ Cardinality(Members(opt.fp32_master_param_groups)) =
            Cardinality(Members(halves))

\* C9 (as claimed): in every state after construction, each group has one
\* master per Half entry the base optimizer held in that group, the i-th live
\* Half parameter paired with the i-th master.
C9_Original ==
    PairedWith([g \in 1..Len(layout.param_groups) |->
                    SelectSeq(layout.param_groups[g], IsHalf)])

\* C9 (amended): in every state after construction, each group has one master
\* per trainable (requires_grad) Half entry the base optimizer held in that
\* group, the i-th live trainable Half parameter paired with the i-th master;
\* backward, step, zero_grad, state_dict and load_state_dict leave the lists
\* as they are.
C9_MasterPairing ==
    PairedWith([g \in 1..Len(layout.param_groups) |->
                    SelectSeq(layout.param_groups[g], IsTrainableHalf)])

\* Witness of C9: a group with two trainable Half parameters, after two
\* backward/step rounds and a load of a checkpoint.
C9_Witness ==
    /\ \E g \in 1..Len(opt.fp16_param_groups) : Len(opt.fp16_param_groups[g]) >= 2
    /\ nback >= 2
    /\ last.op = "load_state_dict"
    /\ \E m \in Members(opt.fp32_master_param_groups) :
            \E p \in DOMAIN layout.tensors :
                opt.tensors[m].data # layout.tensors[p].data

\* C10: right after a step() that returned success, every live Half parameter
\* holds its paired master's value narrowed to float16.
C10_LiveEqualsNarrowedMaster ==
    (last.op = "step" /\ last.success) =>
        \A pr \in Pairs(opt) :
            opt.tensors[pr[1]].data = ToHalf(opt.tensors[pr[2]].data)

\* Witness of C10: a successful step left a master at a value float16 cannot
\* hold, so the live parameter differs from it.
C10_Witness ==
    /\ last.op = "step"
    /\ last.success
    /\ \E pr \in Pairs(opt) : opt.tensors[pr[1]].data # opt.tensors[pr[2]].data

(***************************************************************************)
(* Claims about DynamicGradScaler's construction (checked under SpecCtor). *)
(***************************************************************************)
Positive(x) == x.k = "fin" /\ x.n > 0
C13_Requirements(c) ==
    /\ Positive(c.initial_scale)
    /\ Positive(c.min_scale) /\ FLe(c.min_scale, c.initial_scale)
    /\ FLt(F(1), c.growth_factor)
    /\ Positive(c.backoff_factor) /\ FLt(c.backoff_factor, F(1))
    /\ c.growth_interval > 0
    /\ c.hysteresis > 0
    /\ (c.max_scale # None =>
            FLt(F(1), c.max_scale) /\ FLe(c.initial_scale, c.max_scale))

\* C13: DynamicGradScaler(...) fails with an assertion error and makes no
\* scaler whenever one of initial_scale > 0, 0 < min_scale <= initial_scale,
\* growth_factor > 1, 0 < backoff_factor < 1, growth_interval > 0,
\* hysteresis > 0, and (max_scale given => max_scale > 1 and
\* initial_scale <= max_scale) is violated; otherwise it makes a scaler with
\* scale = initial_scale, growth_tracker = 0, hysteresis_tracker = hysteresis.
C13_ConstructionValidation ==
    config # NotBuilt =>
        IF C13_Requirements(config)
        THEN /\ scaler # AssertionError
             /\ scaler.scale = config.initial_scale
             /\ scaler.growth_tracker = 0
             /\ scaler.hysteresis_tracker = config.hysteresis
        ELSE scaler = AssertionError

\* Witness of C13: a construction rejected only for min_scale > initial_scale.
C13_Witness ==
    /\ config # NotBuilt
    /\ scaler = AssertionError
    /\ C13_Requirements([config EXCEPT !.min_scale = config.initial_scale])

(***************************************************************************)
(* Claims about FP16Optimizer's construction (checked under SpecNew).      *)
(***************************************************************************)
Built == opt # NotBuilt
Given == Members(layout.param_groups)
OtherPrecision(p) == layout.tensors[p].dtype \notin {HalfTensor, FloatTensor}
IsTrainable(p) == layout.tensors[p].requires_grad
\* The entry of the constructed base optimizer in the slot that held p.
SlotOf(p) ==
    LET pos == CHOOSE x \in {<<g, i>> : g \in 1..Len(layout.param_groups), i \in 1..3} :
                    /\ x[2] <= Len(layout.param_groups[x[1]])
                    /\ layout.param_groups[x[1]][x[2]] = p
    IN  opt.optimizer.param_groups[pos[1]][pos[2]]

\* C14 (as claimed): construction fails with a type error if any parameter of
\* the base optimizer is neither Half nor Float32, trainable or not.
C14_Original ==
    (Built /\ \E p \in Given : OtherPrecision(p)) => opt.error = "TypeError"

\* C14 (amended): construction with a scaler that is a BaseGradScaler fails
\* with a type error if any trainable parameter of the base optimizer is
\* neither Half nor Float32, wherever it sits; parameters that do not require
\* gradients are not looked at, so without such a trainable parameter
\* construction succeeds.  With any other scaler construction fails with an
\* assertion error before a parameter is looked at.
C14_PrecisionRejection ==
    Built =>
        IF isinstance(opt.grad_scaler, "BaseGradScaler")
        THEN opt.error = "TypeError" <=>
                \E p \in Given : IsTrainable(p) /\ OtherPrecision(p)
        ELSE opt.error = "AssertionError"

\* Witness of C14: construction failed for a bf16 parameter in the last slot
\* of the last group, after a trainable Half parameter had been handled.
C14_Witness ==
    /\ Built
    /\ opt.error = "TypeError"
    /\ layout.tensors[1].dtype = HalfTensor /\ IsTrainable(1)
    /\ layout.tensors[2].dtype = FloatTensor
    /\ layout.tensors[3].dtype = BFloat16Tensor /\ IsTrainable(3)

\* C15: FP16Optimizer can be constructed over trainable bf16 parameters, and
\* each gets a Float32 master in its slot, as a Half parameter does.
C15_Bf16Support ==
    (Built /\ \E p \in Given : IsTrainable(p) /\ layout.tensors[p].dtype = BFloat16Tensor) =>
        /\ opt.error = "none"
        /\ \A p \in Given :
            (IsTrainable(p) /\ layout.tensors[p].dtype = BFloat16Tensor) =>
                /\ SlotOf(p) \notin DOMAIN layout.tensors
                /\ opt.tensors[SlotOf(p)].dtype = FloatTensor

\* C17 (as claimed): a state entry keyed by a Half parameter before
\* construction is keyed by its master afterwards and no longer by the
\* original; the number of entries is unchanged and entries keyed by Float32
\* parameters are untouched.
Rekeyed(p) ==
    /\ p \notin DOMAIN opt.optimizer.state
    /\ SlotOf(p) \notin DOMAIN layout.tensors
    /\ SlotOf(p) \in DOMAIN opt.optimizer.state
    /\ momentum_buffer(opt.optimizer)[SlotOf(p)] = layout.state[p]
Untouched(p) ==
    /\ p \in DOMAIN opt.optimizer.state
    /\ momentum_buffer(opt.optimizer)[p] = layout.state[p]
C17_Original ==
    (Built /\ opt.error = "none") =>
        /\ Cardinality(DOMAIN opt.optimizer.state) = Cardinality(DOMAIN layout.state)
        /\ \A p \in DOMAIN layout.state :
            IF layout.tensors[p].dtype = HalfTensor THEN Rekeyed(p) ELSE Untouched(p)

\* C17 (amended): a state entry keyed by a trainable Half parameter before
\* construction is keyed by its master afterwards and no longer by the
\* original; the number of entries is unchanged, and entries keyed by Float32
\* parameters or by parameters that do not require gradients are untouched.
C17_StateRekeying ==
    (Built /\ opt.error = "none") =>
        /\ Cardinality(DOMAIN opt.optimizer.state) = Cardinality(DOMAIN layout.state)
        /\ \A p \in DOMAIN layout.state :
            IF layout.tensors[p].dtype = HalfTensor /\ IsTrainable(p)
            THEN Rekeyed(p) ELSE Untouched(p)

\* Witness of C17: construction over a base optimizer that held state for a
\* trainable Half, a frozen Half and a trainable Float32 parameter.
C17_Witness ==
    /\ Built
    /\ opt.error = "none"
    /\ DOMAIN layout.state # {}
    /\ \E p, q, r \in Given :
        /\ layout.tensors[p].dtype = HalfTensor /\ IsTrainable(p)
        /\ layout.tensors[q].dtype = HalfTensor /\ ~IsTrainable(q)
        /\ layout.tensors[r].dtype = FloatTensor /\ IsTrainable(r)

Values(o) == [p \in DOMAIN o.tensors |-> o.tensors[p].data]
GradSlots(o) ==
    Members(o.fp16_param_groups \o o.fp32_master_param_groups \o o.fp32_param_groups)

\* C11: a step() whose overflow flag is true returns (False, None), leaves every
\* master, live Half and standalone Float32 value and the base optimizer's
\* per-parameter state unchanged, and leaves every gradient slot (live Half,
\* master, standalone Float32) released to none.
C11_SkippedOutcome ==
    [][(Step /\ opt'.found_overflow > 0) =>
          /\ ~last'.success
          /\ step(opt).grad_norm = None
          /\ Values(opt') = Values(opt)
          /\ BaseState(opt') = BaseState(opt)
          /\ \A p \in GradSlots(opt') : opt'.tensors[p].grad = None]_vars

\* Witness of C11: a step was skipped on an optimizer that holds a standalone
\* Float32 parameter with a gradient, momentum in the base optimizer and
\* masters that earlier steps moved.
C11_Witness ==
    /\ last.op = "step"
    /\ ~last.success
    /\ opt.found_overflow > 0
    /\ Members(opt.fp32_param_groups) # {}
    /\ DOMAIN opt.optimizer.state # {}
    /\ \E pr \in Pairs(opt) : opt.tensors[pr[2]].data # layout.tensors[pr[1]].data

(***************************************************************************)
(* Claims about the base optimizer's groups under the public operations    *)
(* (checked under SpecApi).                                                *)
(***************************************************************************)
SameShape ==
    /\ Len(opt.optimizer.param_groups) = Len(layout.param_groups)
    /\ \A g \in 1..Len(layout.param_groups) :
            Len(opt.optimizer.param_groups[g]) = Len(layout.param_groups[g])

\* C16 (as claimed): in every state every entry of every group of the wrapped
\* base optimizer is Float32, none a Half buffer, and each master sits at the
\* group and index of its Half original.
C16_Original ==
    /\ SameShape
    /\ \A p \in Given :
        /\ opt.tensors[SlotOf(p)].dtype = FloatTensor
        /\ IsHalf(p) => <<p, SlotOf(p)>> \in Pairs(opt)

\* C16 (amended): in every state every entry of the wrapped base optimizer
\* that stands for a trainable parameter is Float32: the master of a trainable
\* Half parameter, at the group and index of its original, or the trainable
\* Float32 parameter itself; an entry that does not require gradients is left
\* as it was, a Half buffer included.
C16_FullPrecisionEntries ==
    /\ SameShape
    /\ \A p \in Given :
        IF IsTrainable(p)
        THEN /\ opt.tensors[SlotOf(p)].dtype = FloatTensor
             /\ IF IsHalf(p) THEN <<p, SlotOf(p)>> \in Pairs(opt) ELSE SlotOf(p) = p
        ELSE SlotOf(p) = p

\* Witness of C16: a base optimizer that held a trainable and a frozen Half
\* parameter, after a successful step and after the caller has assigned
\* param_groups with another learning rate.
C16_Witness ==
    /\ \E p, q \in Given : IsTrainableHalf(p) /\ IsHalf(q) /\ ~IsTrainable(q)
    /\ last.op = "param_groups"
    /\ \E g \in DOMAIN opt.optimizer.lr : opt.optimizer.lr[g] # F(1)
    /\ \E pr \in Pairs(opt) : opt.tensors[pr[2]].data # ToFloat(layout.tensors[pr[1]].data)

(***************************************************************************)
(* Claims about the ranks of a distributed run (checked under SpecDist).   *)
(***************************************************************************)
StepDone(r, k) == Len(log[r]) >= k /\ log[r][k].done
AllDone(k) == \A r \in Ranks : StepDone(r, k)
SomeLocalOverflow(k) == \E q \in Ranks : Len(log[q]) >= k /\ log[q][k].local

NoStepOnOverflow ==
    \A k \in 1..MaxDistSteps : \A r \in Ranks :
        (StepDone(r, k) /\ SomeLocalOverflow(k)) => ~log[r][k].success
SameScalerOnOverflow ==
    \A k \in 1..MaxDistSteps :
        (AllDone(k) /\ SomeLocalOverflow(k)) =>
            \A r1, r2 \in Ranks : log[r1][k].scaler = log[r2][k].scaler
SameDecision ==
    \A k \in 1..MaxDistSteps : \A r1, r2 \in Ranks :
        (StepDone(r1, k) /\ StepDone(r2, k)) =>
            log[r1][k].overflow = log[r2][k].overflow
DecisionIsAnyLocal ==
    \A k \in 1..MaxDistSteps : \A r \in Ranks :
        StepDone(r, k) => (log[r][k].overflow <=> SomeLocalOverflow(k))

\* C1: in every step, if some rank's local overflow scan finds a non-finite
\* gradient, no rank runs the base optimizer's update or copies masters into
\* live parameters in that step, and all ranks' scalers end the step in the
\* same state.
C1_StepAtomicity == NoStepOnOverflow /\ SameScalerOnOverflow

\* C1 restricted to optimizers constructed with both process groups passed.
C1_WithGroupsPassed == (world = "explicit") => C1_StepAtomicity

\* C2: the value _check_overflow returns in a step is the same on every rank,
\* and is true exactly when some rank had a non-finite gradient.
C2_OverflowAgreement == SameDecision /\ DecisionIsAnyLocal

\* C2 restricted to optimizers constructed with both process groups passed.
C2_WithGroupsPassed == (world = "explicit") => C2_OverflowAgreement

(***************************************************************************)
(* Claims about the statements of step() (checked under SpecTrain).        *)
(***************************************************************************)
Statements == [i \in 1..Len(trace) |-> trace[i].stmt]
Positions(stmts) == {i \in 1..Len(trace) : trace[i].stmt \in stmts}
StepReturned == at = "Idle" /\ last.op = "step"
LastOutcome == outcomes[Len(outcomes)]

\* C12: every step() calls scaler.update exactly once, with the flag
\* _check_overflow returned, whether it ends skipped or stepped, and before the
\* base optimizer's update or the release of the gradients.
C12_ScalerObservesEveryStep ==
    /\ Cardinality(Positions({"scaler_update"})) <= 1
    /\ \A i \in Positions({"scaler_update"}) :
            \E k \in Positions({"check_overflow"}) : k < i /\ trace[k].flag = trace[i].flag
    /\ \A i \in Positions({"base_step", "zero_grad", "copy_back"}) :
            \E j \in Positions({"scaler_update"}) : j < i
    /\ StepReturned =>
            /\ Cardinality(Positions({"scaler_update"})) = 1
            /\ opt.grad_scaler = update(entry.grad_scaler, LastOutcome.overflow)

\* Witness of C12: a step that was skipped, after one that stepped, has
\* returned with the scale cut.
C12_Witness ==
    /\ StepReturned
    /\ Len(outcomes) >= 2
    /\ outcomes[1].success
    /\ ~LastOutcome.success
    /\ opt.grad_scaler.scale # entry.grad_scaler.scale

\* No step() has overflowed so far.
Clean == \A i \in 1..Len(outcomes) : ~outcomes[i].overflow

\* The masters follow the reference and the live parameters are the
\* reference parameters narrowed to half.
FollowsReference ==
    /\ \A pr \in Pairs(opt) :
        /\ opt.tensors[pr[2]].data = ref.tensors[pr[2]].data
        /\ opt.tensors[pr[1]].data = ToHalf(ref.tensors[pr[2]].data)
    /\ \A m \in DOMAIN ref.tensors :
        /\ (m \in DOMAIN opt.optimizer.state) <=> (m \in DOMAIN ref.state)
        /\ m \in DOMAIN ref.state =>
                momentum_buffer(opt.optimizer)[m] = momentum_buffer(ref)[m]

\* The gradient the base optimizer is about to see for every master is the
\* live gradient divided by the scale of the preceding backward.
SeesUnscaled ==
    \A pr \in Pairs(opt) :
        opt.tensors[pr[2]].grad = FDiv(ToFloat(ref.live[pr]), ref.scale)

C18_Original ==
    Clean =>
        /\ Next_("base_step") => SeesUnscaled
        /\ at = "Idle" => FollowsReference

\* C18 (amended): in a run of backward/step pairs without overflow in which
\* no step's gradient clipping has scaled the gradients (clip_grad_norm is 0
\* or the norm stayed within it), the gradient the base optimizer sees for a
\* master is the live gradient divided by the scale that multiplied the loss
\* in the preceding backward, the masters (and their momentum) follow the base
\* optimizer run unwrapped on Float32 parameters with the unscaled gradients,
\* and the live parameters are those reference parameters narrowed to half.
C18_UnwrappedEquivalence ==
    (Clean /\ ~ref.clipped) =>
        /\ Next_("base_step") => SeesUnscaled
        /\ at = "Idle" => FollowsReference

\* Witness of C18: two clean steps have returned, the scale has grown in
\* between, and a reference parameter is not representable in half.
C18_Witness ==
    /\ StepReturned
    /\ Clean
    /\ ~ref.clipped
    /\ Len(outcomes) >= 2
    /\ ref.scale # F(4)
    /\ \E pr \in Pairs(opt) : opt.tensors[pr[1]].data # ref.tensors[pr[2]].data

\* The statements of a step() that skips and of one that steps, and the stage
\* each prefix of them leaves the optimizer in.
IsPrefix(a, b) == Len(a) <= Len(b) /\ a = SubSeq(b, 1, Len(a))
SkippedRun == <<"assign_grad", "unscale_grads", "check_overflow", "scaler_update", "zero_grad">>
\* A step that steps clips the gradients first when the optimizer was
\* constructed with a maximal norm.
SteppedRun ==
    IF FLt(F(0), opt.clip_grad_max_norm)
    THEN <<"assign_grad", "unscale_grads", "check_overflow", "scaler_update",
           "clip_grad_norm", "base_step", "copy_back">>
    ELSE <<"assign_grad", "unscale_grads", "check_overflow", "scaler_update",
           "base_step", "copy_back">>
StageReached ==
    CASE Statements = << >>              -> at \in {"Idle", "Called"}
      [] Statements = SubSeq(SkippedRun, 1, 1) -> at = "GradientsAssigned"
      [] Statements = SubSeq(SkippedRun, 1, 2) -> at = "Unscaled"
      [] Statements = SubSeq(SkippedRun, 1, 3) -> at = "OverflowChecked"
      [] Statements = SubSeq(SkippedRun, 1, 4) -> at = "ScalerUpdated"
      [] Statements = SkippedRun         -> at = "Idle" /\ LastOutcome.overflow /\ ~LastOutcome.success
      [] Statements = SteppedRun         -> at = "Idle" /\ ~LastOutcome.overflow /\ LastOutcome.success
      [] Statements = SubSeq(SteppedRun, 1, Len(SteppedRun) - 1) ->
                                            at = "BaseStepped" /\ ~Overflow
      [] Statements = SubSeq(SteppedRun, 1, Len(SteppedRun) - 2) ->
                                            at = "Clipped" /\ ~Overflow
      [] OTHER                           -> FALSE

\* C20: step() goes through GradientsAssigned, Unscaled, OverflowChecked and
\* then steps or skips, in that order: the live Half gradients are in the
\* masters' slots (and cleared) before unscaling, every master and standalone
\* Float32 gradient is unscaled before the overflow scan, and the base
\* optimizer's update and the copy to the live parameters come only after an
\* overflow decision of false.
C20_StepOrdering ==
    /\ IsPrefix(Statements, SkippedRun) \/ IsPrefix(Statements, SteppedRun)
    /\ StageReached
    /\ at = "GradientsAssigned" =>
            \A pr \in Pairs(opt) :
                /\ opt.tensors[pr[1]].grad = None
                /\ opt.tensors[pr[2]].grad = ToFloat(entry.tensors[pr[1]].grad)
    /\ at \in {"Unscaled", "OverflowChecked"} =>
            /\ \A pr \in Pairs(opt) :
                    opt.tensors[pr[2]].grad =
                        FDiv(ToFloat(entry.tensors[pr[1]].grad), entry.grad_scaler.scale)
            /\ \A p \in Members(opt.fp32_param_groups) :
                    entry.tensors[p].grad # None =>
                        opt.tensors[p].grad =
                            FDiv(entry.tensors[p].grad, entry.grad_scaler.scale)
    /\ at = "OverflowChecked" =>
            (Overflow <=> \E p \in Members(opt.optimizer.param_groups) :
                            has_inf_or_nan(opt.tensors[p].grad))
    /\ at \in {"Called", "GradientsAssigned", "Unscaled", "OverflowChecked", "ScalerUpdated"} =>
            Values(opt) = Values(entry)

\* Witness of C20: the base optimizer has stepped and the copy to the live
\* parameters is still to come, in a step after a skipped one.
C20_Witness ==
    /\ at = "BaseStepped"
    /\ Len(outcomes) >= 1
    /\ ~outcomes[1].success
    /\ \E pr \in Pairs(opt) : opt.tensors[pr[2]].data # entry.tensors[pr[2]].data

(***************************************************************************)
(* Claims about runs of the training loop (checked under SpecTrainFair).   *)
(***************************************************************************)
EveryStepOverflows == \A i \in 1..Len(outcomes) : outcomes[i].overflow
SkippedResults ==
    /\ opt.error = "none"
    /\ \A i \in 1..Len(outcomes) :
            outcomes[i].overflow => (~outcomes[i].success /\ outcomes[i].grad_norm = None)

\* C19: in a run where every step overflows, every step() returns
\* (False, None) without raising, and the scale eventually is min_scale and
\* stays min_scale.
C19_OverflowNeverAborts ==
    []EveryStepOverflows =>
        ([]SkippedResults /\ <>[](opt.grad_scaler.scale = opt.grad_scaler.min_scale))

\* Witness of C19: three overflowing steps have returned and the scale has
\* come down from its initial value to min_scale.
C19_Witness ==
    /\ StepReturned
    /\ Len(outcomes) >= 3
    /\ EveryStepOverflows
    /\ opt.grad_scaler.scale = opt.grad_scaler.min_scale
    /\ opt.grad_scaler.hysteresis > 1

(***************************************************************************)
(* Claims about checkpoints (checked under SpecLoad).                      *)
(***************************************************************************)
Loaded == last.op = "load_state_dict"
Masters(o) == Members(o.fp32_master_param_groups)
\* The optimizer's lists, and every tensor but for its value, are the same in
\* a and b: nothing was replaced, reallocated or reordered.
SameBuffers(a, b) ==
    /\ a.fp32_master_param_groups = b.fp32_master_param_groups
    /\ a.fp16_param_groups = b.fp16_param_groups
    /\ a.fp32_param_groups = b.fp32_param_groups
    /\ a.optimizer.param_groups = b.optimizer.param_groups
    /\ DOMAIN a.tensors = DOMAIN b.tensors
    /\ \A p \in DOMAIN a.tensors :
            [a.tensors[p] EXCEPT !.data = F(0)] = [b.tensors[p] EXCEPT !.data = F(0)]

\* What load_state_dict(d) did when it took the optimizer from o to n.
PositionalCopy(o, d, n) ==
    LET cur == o.fp32_master_param_groups
    IN  /\ SameBuffers(o, n)
        /\ IF "fp32_master_param_groups" \in DOMAIN d
           THEN \A g \in 1..Len(cur) : \A j \in 1..Len(cur[g]) :
                    n.tensors[cur[g][j]].data =
                        o.tensors[d.fp32_master_param_groups[g][j]].data
           ELSE \A m \in Masters(o) : n.tensors[m].data = o.tensors[m].data
        /\ "grad_scaler" \notin DOMAIN d => n.grad_scaler = o.grad_scaler

\* C21: load_state_dict(d) copies the j-th checkpointed master value of group
\* g into the j-th master buffer of group g and replaces, reallocates or
\* reorders no buffer; without the key 'grad_scaler' the scaler is unchanged,
\* without the key 'fp32_master_param_groups' the master values are unchanged.
C21_PositionalPartialRestore ==
    [][last'.op = "load_state_dict" => PositionalCopy(opt, given', opt')]_vars

\* Witness of C21: a deep-copied checkpoint was loaded without its scaler
\* after a step: a master is back at its checkpointed value, which its live
\* parameter does not show, and the scaler is the one the step left.
C21_Witness ==
    /\ Loaded
    /\ taken.kind = "deepcopy"
    /\ DOMAIN given = {"optimizer", "fp32_master_param_groups"}
    /\ opt.grad_scaler # taken.opt.grad_scaler
    /\ \E pr \in Pairs(opt) :
            /\ opt.tensors[pr[2]].data = taken.opt.tensors[pr[2]].data
            /\ opt.tensors[pr[1]].data # ToHalf(opt.tensors[pr[2]].data)

(***************************************************************************)
(* Claims about the process groups (checked under SpecDist).               *)
(***************************************************************************)
\* The groups rank r belongs to in the global context.
DataGroupOf(r) == ContextOf(r).data_group
ModelGroupOf(r) == ContextOf(r).model_group
\* The all_reduce rank r is waiting in runs over group G.
Reducing(r, G) ==
    \E c \in wire : c.rank = r /\ c.group = G /\ c.n = Issued(wire, G, r)

\* C22: an optimizer constructed without dp_process_group / mp_process_group
\* holds the data-parallel group as its data-parallel group and the
\* model-parallel group as its model-parallel group, and the second reduction
\* of the overflow flag runs over the model-parallel group.
C22_GroupResolution ==
    world = "default" =>
        \A r \in Ranks :
            /\ node[r].dp_process_group = DataGroupOf(r)
            /\ node[r].mp_process_group = ModelGroupOf(r)
            /\ pc[r] = "ReduceMP" => Reducing(r, ModelGroupOf(r))

(***************************************************************************)
(* Claims about the trackers (checked under SpecScaler).                   *)
(***************************************************************************)
GrowthTrackerInRange ==
    scaler.growth_tracker \in 0..(scaler.growth_interval - 1)
HysteresisTrackerInRange ==
    scaler.hysteresis_tracker \in 0..scaler.hysteresis

\* C23: after any sequence of update(found_inf) calls,
\* 0 <= growth_tracker < growth_interval and
\* 0 <= hysteresis_tracker <= hysteresis.
C23_TrackerRanges == GrowthTrackerInRange /\ HysteresisTrackerInRange

(***************************************************************************)
(* Claims about the collectives (checked under SpecDistFair).              *)
(***************************************************************************)
StepNumbers == 1..MaxDistSteps
\* Rank q has entered the overflow check of its k-th step and contributed its
\* local flag.
Entered(q, k) == Len(log[q]) >= k
\* Rank r's k-th step has finished, stepped or skipped.
Finished(r, k) == Len(log[r]) >= k /\ log[r][k].done
\* ... and rank r is back in Idle, or has since entered a later step.
BackInIdle(r, k) == Finished(r, k) /\ (pc[r] = "Idle" \/ Len(log[r]) > k)
\* The ranks whose flags reach rank r through the two reductions: the
\* data-parallel group of every member of r's model-parallel group.
Upstream(r) == UNION {DataGroupOf(q) : q \in ModelGroupOf(r) \cup {r}}

\* Every member of rank r's data-parallel and model-parallel groups has
\* entered step k, and so contributed its local flag, whenever rank r has
\* finished it.
NoEarlyFinish ==
    \A r \in Ranks : \A k \in StepNumbers :
        Finished(r, k) =>
            \A q \in DataGroupOf(r) \cup ModelGroupOf(r) : Entered(q, k)

\* C24: if every member of rank r's data-parallel and model-parallel groups
\* enters the overflow check of step k, rank r's step k eventually finishes,
\* stepped or skipped, and returns to Idle; no rank finishes the overflow
\* check of step k before every member of its groups has contributed its
\* local flag for step k.  Having entered and having finished a step are
\* permanent, so "entered leads to finished" is "again and again, no rank
\* has every member of its groups entered and is unfinished".
C24_StepTermination ==
    /\ []<>(\A r \in Ranks : \A k \in StepNumbers :
                (\A q \in DataGroupOf(r) \cup ModelGroupOf(r) : Entered(q, k))
                    => BackInIdle(r, k))
    /\ []NoEarlyFinish

\* With both groups passed at construction no rank finishes before the
\* members of its groups have contributed.
C24_WithGroupsPassed == (world = "explicit") => NoEarlyFinish

\* The two reductions run one after the other, so rank r's step finishes
\* once every rank upstream of it has entered, however the groups were
\* resolved.
C24_WhenUpstreamEntered ==
    []<>(\A r \in Ranks : \A k \in StepNumbers :
            (\A q \in Upstream(r) : Entered(q, k)) => BackInIdle(r, k))

(***************************************************************************)
(* Claims about the overflow flag over several steps (checked under        *)
(* SpecTrain).                                                             *)
(***************************************************************************)
\* Some gradient the step was called with is inf or NaN.
NonFiniteAtEntry ==
    \E p \in DOMAIN entry.tensors : has_inf_or_nan(entry.tensors[p].grad)

\* C25: the flag is recomputed in every check: a step is skipped exactly when
\* a gradient present in that step is not finite, whatever earlier steps did.
C25_NoStaleOverflow ==
    /\ at \in {"OverflowChecked", "ScalerUpdated", "BaseStepped"} =>
            (Overflow <=> NonFiniteAtEntry)
    /\ StepReturned =>
            /\ LastOutcome.overflow <=> NonFiniteAtEntry
            /\ LastOutcome.success <=> ~NonFiniteAtEntry

\* Witness of C25: a step with finite gradients has stepped right after a
\* step that was skipped.
C25_Witness ==
    /\ StepReturned
    /\ Len(outcomes) >= 2
    /\ outcomes[Len(outcomes) - 1].overflow
    /\ LastOutcome.success
    /\ ~NonFiniteAtEntry

(***************************************************************************)
(* Claims about snapshots (checked under SpecLoad).                        *)
(***************************************************************************)
\* The master values the dictionary sd holds are those of snapshot time.
KeepsValues(sd) ==
    LET gs == sd.fp32_master_param_groups
        at0 == taken.opt.fp32_master_param_groups
    IN  \A g \in 1..Len(gs) : \A j \in 1..Len(gs[g]) :
            opt.tensors[gs[g][j]].data = taken.opt.tensors[at0[g][j]].data
\* Every master buffer has its value of snapshot time.
MastersAsTaken ==
    \A m \in Masters(opt) : opt.tensors[m].data = taken.opt.tensors[m].data

\* C26: a value returned by state_dict() keeps the master values of the time
\* it was taken, and loading it after further steps sets every master back to
\* its value of that time.
C26_SnapshotIndependence ==
    taken.kind = "state_dict" =>
        /\ \A sd \in ckpt : KeepsValues(sd)
        /\ (Loaded /\ given \in ckpt) => MastersAsTaken

\* load_state_dict took the optimizer from o to n writing nothing but master
\* values, the scaler and the base optimizer's state.
WritesOnlyMastersScalerState(o, n) ==
    /\ SameBuffers(o, n)
    /\ \A p \in DOMAIN o.tensors \ Masters(o) : n.tensors[p] = o.tensors[p]
    /\ \A f \in DOMAIN o \ {"tensors", "grad_scaler", "optimizer"} : n[f] = o[f]
\* The live Half parameter of pair pr shows its master, narrowed.
InSync(o, pr) == o.tensors[pr[1]].data = ToHalf(o.tensors[pr[2]].data)

\* The original statement of C27: whenever the load changes a master, its live
\* parameter differs from the narrowed master afterwards.
C27_Original ==
    [][last'.op = "load_state_dict" =>
            /\ WritesOnlyMastersScalerState(opt, opt')
            /\ \A pr \in Pairs(opt) :
                    opt'.tensors[pr[2]].data # opt.tensors[pr[2]].data
                        => ~InSync(opt', pr)]_vars

\* C27 (amended): load_state_dict writes only master values, scaler state and
\* base-optimizer state; every live Half parameter keeps the value it had, so
\* it shows the loaded master only where that master narrows to the value the
\* parameter already had, and the next successful step brings every live Half
\* parameter to its narrowed master.
C27_LiveUntouchedByLoad ==
    [][/\ last'.op = "load_state_dict" =>
            /\ WritesOnlyMastersScalerState(opt, opt')
            /\ \A pr \in Pairs(opt) :
                    InSync(opt', pr) <=>
                        opt.tensors[pr[1]].data = ToHalf(opt'.tensors[pr[2]].data)
       /\ (last'.op = "step" /\ last'.success) =>
            \A pr \in Pairs(opt) : InSync(opt', pr)]_vars

\* Witness of C27: a whole deep-copied checkpoint was loaded after a step had
\* changed the parameters: a master is back at its checkpointed value, and
\* its live parameter, untouched, happens to show it.
C27_Witness ==
    /\ Loaded
    /\ taken.kind = "deepcopy"
    /\ given \in ckpt
    /\ \E p \in DOMAIN taken.opt.tensors \ Masters(opt) :
            opt.tensors[p].data # taken.opt.tensors[p].data
    /\ \E pr \in Pairs(opt) :
            /\ InSync(opt, pr)
            /\ opt.tensors[pr[2]].data = taken.opt.tensors[pr[2]].data

(***************************************************************************)
(* Claims about the hysteresis budget (checked under SpecScaler).          *)
(***************************************************************************)
\* The k-th update completed growth_interval non-overflow updates in a row.
IntervalCompleted(k) ==
    k >= config.growth_interval
        /\ RunOf(FALSE, k - config.growth_interval, config.growth_interval)
\* The overflows among the updates i+1 .. j.
OverflowsIn(i, j) == {k \in (i + 1)..j : hist[k].found_inf}

\* C28: an update(False) that does not bring growth_tracker to growth_interval
\* leaves hysteresis_tracker and scale unchanged; as long as no
\* growth_interval non-overflow updates in a row are completed, every overflow
\* draws on the same budget; and an overflow on an exhausted budget sets
\* scale to max(scale * backoff_factor, min_scale), below what it was unless
\* it was min_scale already.
C28_HysteresisBudget ==
    /\ \A i \in 1..Len(hist) :
            (~hist[i].found_inf
                /\ GrowthTrackerAfter(i - 1) + 1 # config.growth_interval) =>
                /\ HysteresisTrackerAfter(i) = HysteresisTrackerAfter(i - 1)
                /\ ScaleAfter(i) = ScaleAfter(i - 1)
    /\ \A i \in 0..Len(hist) : \A j \in i..Len(hist) :
            (\A k \in (i + 1)..j : ~IntervalCompleted(k)) =>
                HysteresisTrackerAfter(j) =
                    HysteresisTrackerAfter(i) - Cardinality(OverflowsIn(i, j))
    /\ \A i \in 1..Len(hist) :
            (hist[i].found_inf /\ HysteresisTrackerAfter(i - 1) <= 0) =>
                /\ ScaleAfter(i) = BackedOff(ScaleAfter(i - 1))
                /\ FLt(config.min_scale, ScaleAfter(i - 1)) =>
                        FLt(ScaleAfter(i), ScaleAfter(i - 1))

\* Witness of C28: with hysteresis 2, an overflow, one non-overflow update
\* that does not complete the growth interval, and two more overflows: the
\* second overflow used up the budget and cut the scale, the third cut it
\* again.
C28_Witness ==
    /\ config.hysteresis = 2
    /\ config.growth_interval > 1
    /\ Len(hist) = 4
    /\ hist[1].found_inf /\ ~hist[2].found_inf /\ hist[3].found_inf /\ hist[4].found_inf
    /\ ScaleAfter(2) = config.initial_scale
    /\ FLt(ScaleAfter(3), ScaleAfter(2))
    /\ FLt(ScaleAfter(4), ScaleAfter(3))
    /\ HysteresisTrackerAfter(4) = -1

(***************************************************************************)
(* Claims about the 2.5D process groups (checked under SpecGroups).        *)
(***************************************************************************)
\* The size the groups of each mode are said to have.
GroupSize(p) ==
    IF p.mode = "PARALLEL_2P5D_XZ"
    THEN p.tesseract_dim * p.tesseract_dep
    ELSE IF p.mode = "PARALLEL_2P5D_DEP" THEN p.tesseract_dep ELSE p.tesseract_dim
\* The groups that rank r is a member of.
GroupsOf(r) == {n \in 1..Len(made) : r \in Range(made[n])}
WorldDivides == pgi.world_size % pgi.tensor_parallel_size = 0

\* C29: when world_size is a multiple of tensor_parallel_size = dim^2 * dep,
\* the groups an initializer has built when it returns partition the ranks
\* 0..world_size-1, each group has dim (ROW, Col), dep (Dep) or dim * dep (XZ)
\* members, and the initializer returns the group that contains the calling
\* rank with local_rank the position of the rank in that group's rank list.
C29_GroupPartition ==
    (returned # {} /\ WorldDivides) =>
        /\ \A r \in 0..(pgi.world_size - 1) : Cardinality(GroupsOf(r)) = 1
        /\ \A n \in 1..Len(made) :
                /\ Range(made[n]) \subseteq 0..(pgi.world_size - 1)
                /\ Len(made[n]) = GroupSize(pgi)
                /\ Cardinality(Range(made[n])) = GroupSize(pgi)
        /\ \A t \in returned :
                /\ t.process_group = GroupsOf(pgi.rank)
                /\ \A n \in t.process_group : t.ranks_in_group = {made[n]}
                /\ \A g \in t.ranks_in_group :
                        /\ t.group_world_size = {Len(g)}
                        /\ \A l \in t.local_rank : g[l + 1] = pgi.rank
                /\ Cardinality(t.local_rank) = 1
                /\ t.mode = pgi.mode

\* Witness of C29: rank 5 of 8 with dim = dep = 2 has run the XZ initializer
\* and got the group [1, 3, 5, 7], in which it is third.
C29_Witness ==
    /\ returned # {}
    /\ WorldDivides
    /\ pgi.mode = "PARALLEL_2P5D_XZ"
    /\ pgi.tesseract_dim = 2 /\ pgi.tesseract_dep = 2
    /\ pgi.world_size = 8 /\ pgi.rank = 5
    /\ \A t \in returned :
            t.ranks_in_group = {<<1, 3, 5, 7>>} /\ t.local_rank = {2}

====
